---- MODULE Spec2Model ----
(***************************************************************************)
(* Model of invenio-users-resources: the permission generators            *)
(* (services/generators.py, permissions.py) and the groups service        *)
(* (services/groups/service.py).                                          *)
(*                                                                         *)
(* Two specifications share the variables:                                 *)
(*   Spec     the groups service: every action is one service call, made   *)
(*            by one identity, against the roles table;                    *)
(*   SpecGen  the generators as pure functions: Init draws the roles table *)
(*            and the superuser role set from bounded sets, the actions    *)
(*            apply one generator method to one identity and one target.   *)
(*   SpecHttp the groups resource: every action is one HTTP request,      *)
(*            routed to a view that calls the groups service;              *)
(*   SpecUsers the generators for users as pure functions;                 *)
(*   SpecLifecycle the users resource: the views that change the state of  *)
(*            an account.                                                  *)
(***************************************************************************)
EXTENDS Integers, FiniteSets, Sequences, TLC

VARIABLES
    roles,             \* the Role table: id -> [name, description, is_managed, users]
    superuser_roles,   \* ActionRoles rows for superuser_access (role ids)
    moderation_roles,  \* ActionRoles rows for administration-moderation (role ids)
    uow,               \* operations registered with the unit of work of the last call
    last,              \* the last service call and its outcome
    commits,           \* units of work committed so far
    gen,               \* the last generator method applied (SpecGen, SpecUsers)
    http,              \* the last HTTP exchange of a resource (SpecHttp, SpecLifecycle)
    accounts           \* the User table: id -> [active, confirmed_at, verified_at, blocked_at]

vars ==
    <<roles, superuser_roles, moderation_roles, uow, last, commits, gen, http, accounts>>

----------------------------------------------------------------------------
(* Bounds *)

MaxUser == 3
MaxGroup == 3
\* calls that commit a unit of work, in one behaviour
MaxCommits == 2

Users == 1..MaxUser
GroupIds == 1..MaxGroup
\* an id (and a name) no group has: ids are looked up, never assumed to exist
MissingId == MaxGroup + 1
MissingName == "nosuchgroup"

Descriptions == {"d0", "d1"}
NewNames == {"newgroup", "admin"}

USER_MANAGEMENT_ACTION_NAME == "administration-moderation"
SUPERUSER_ACTION_NAME == "superuser-access"

----------------------------------------------------------------------------
(* Identities and needs (flask-principal / invenio-access values) *)

\* identity=None
NoIdentity == [kind |-> "none", id |-> 0]
\* AnonymousIdentity: id is None, provides any_user
AnonIdentity == [kind |-> "anon", id |-> 0]
\* system_identity: id is "system", provides system_process
SystemIdentity == [kind |-> "system", id |-> 0]
UserIdentity(u) == [kind |-> "user", id |-> u]

UserIdentities == {UserIdentity(u) : u \in Users}
\* identities a request can carry
RequestIdentities == {AnonIdentity} \cup UserIdentities
GivenIdentities == {AnonIdentity, SystemIdentity} \cup UserIdentities
AllIdentities == {NoIdentity} \cup GivenIdentities

\* Python truthiness of `identity`: None is falsy, an Identity object is truthy
Truthy(identity) == identity.kind # "none"

any_user == [method |-> "system_role", value |-> 0, name |-> "any_user"]
authenticated_user == [method |-> "system_role", value |-> 0, name |-> "authenticated_user"]
system_process == [method |-> "system_role", value |-> 0, name |-> "system_process"]
UserNeed(u) == [method |-> "id", value |-> u, name |-> ""]
RoleNeed(r) == [method |-> "role", value |-> r, name |-> ""]
ActionNeed(a) == [method |-> "action", value |-> 0, name |-> a]

superuser_access == ActionNeed(SUPERUSER_ACTION_NAME)
user_management_action == ActionNeed(USER_MANAGEMENT_ACTION_NAME)

\* identity.provides, loaded for each request from the user's current roles
Provides(identity) ==
    CASE identity.kind = "anon" -> {any_user}
      [] identity.kind = "system" -> {system_process}
      [] identity.kind = "user" ->
            {any_user, authenticated_user, UserNeed(identity.id)}
            \cup {RoleNeed(r) : r \in {x \in DOMAIN roles : identity.id \in roles[x].users}}
      [] OTHER -> {}

\* the role needs an action need expands to (ActionRoles.query_by_action)
ActionRoles(a) ==
    CASE a = SUPERUSER_ACTION_NAME -> superuser_roles
      [] a = USER_MANAGEMENT_ACTION_NAME -> moderation_roles
      [] OTHER -> {}

\* invenio_access.Permission(*needs).allows(identity): superuser_access is
\* always one of the explicit needs, action needs are expanded to role needs
Allows(needs, identity) ==
    LET explicit == needs \cup {superuser_access}
        expanded == {n \in explicit : n.method # "action"}
                    \cup UNION {{RoleNeed(r) : r \in ActionRoles(n.name) \cap DOMAIN roles}
                                 : n \in {m \in explicit : m.method = "action"}}
    IN  expanded \cap Provides(identity) # {}

----------------------------------------------------------------------------
(* HTTP exchanges: the request line, who sent it, and the response *)

\* an exception and what it carries
Exception(cls, message) == [cls |-> cls, message |-> message]
NoException == Exception("", "")

Exchange(method, route, identity, id_, status, description, error) ==
    [method |-> method, route |-> route, identity |-> identity, id |-> id_,
     status |-> status, description |-> description, error |-> error]

NoHttp == Exchange("", "", NoIdentity, 0, 0, "", NoException)

----------------------------------------------------------------------------
(* The accounts: a timestamp column is either None (FALSE) or set (TRUE) *)

Account(active, confirmed_at, verified_at, blocked_at) ==
    [active |-> active, confirmed_at |-> confirmed_at, verified_at |-> verified_at,
     blocked_at |-> blocked_at]

\* the users of the test fixtures: active and confirmed, neither verified nor
\* blocked
FixtureAccounts == [u \in Users |-> Account(TRUE, TRUE, FALSE, FALSE)]

----------------------------------------------------------------------------
(* Targets of a permission decision *)

\* a user's preferences: a dictionary in which either key may be missing
PreferenceFields == {"visibility", "email_visibility"}
PreferenceValues == {"public", "restricted", "hidden"}
Preferences == UNION {[D -> PreferenceValues] : D \in SUBSET PreferenceFields}
NoPreferences == [f \in {} |-> "restricted"]

\* dict.get(key, default)
Get(dict, key, default) == IF key \in DOMAIN dict THEN dict[key] ELSE default

NoRecord == [kind |-> "none", id |-> 0, preferences |-> NoPreferences]
GroupRecord(g) == [kind |-> "group", id |-> g, preferences |-> NoPreferences]
UserRecord(u) == [kind |-> "user", id |-> u, preferences |-> NoPreferences]
\* a user aggregate with its preferences
UserAggregate(u, preferences) == [kind |-> "user", id |-> u, preferences |-> preferences]

----------------------------------------------------------------------------
(* permissions.py: SuperUserMixin *)

_get_superadmin_roles == superuser_roles

_get_superadmin_users ==
    UNION {roles[r].users : r \in _get_superadmin_roles \cap DOMAIN roles}

_get_superadmin_groups ==
    {roles[r].name : r \in _get_superadmin_roles \cap DOMAIN roles}

_is_group_superadmin(group_id, rs) == group_id \in rs

_is_user_superadmin(identity, rs) ==
    LET rs2 == IF rs # {} THEN rs ELSE _get_superadmin_roles
        users == UNION {roles[r].users : r \in rs2 \cap DOMAIN roles}
    IN  identity.kind = "user" /\ identity.id \in users

----------------------------------------------------------------------------
(* generators.py: IfActionRoleMatches and its two subclasses *)

\* the index None of a refused action: (False, None)
NoneIndex == 0 - 1

Decision(proceed, index) == [proceed |-> proceed, index |-> index]

\* the `options` table of IfGroupActionRoleMatches._should_action_proceed
GroupOptions_GroupNotProtected(is_user_super, is_group_super) ==
    IF is_user_super /\ is_group_super THEN Decision(TRUE, 0) ELSE Decision(TRUE, 1)

GroupOptions(is_user_super, is_group_super) ==
    CASE is_user_super /\ is_group_super -> Decision(TRUE, 0)
      [] is_user_super /\ ~is_group_super -> Decision(TRUE, 1)
      [] ~is_user_super /\ is_group_super -> Decision(FALSE, NoneIndex)
      [] ~is_user_super /\ ~is_group_super -> Decision(TRUE, 1)

IfGroupActionRoleMatches_should_action_proceed_DefaultAllow(identity, group) ==
    LET rs == _get_superadmin_roles
    IN  IF rs = {} \/ ~Truthy(identity) \/ group = NoRecord THEN Decision(TRUE, 1)
        ELSE GroupOptions(_is_user_superadmin(identity, rs),
                          _is_group_superadmin(group.id, rs))

IfGroupActionRoleMatches_should_action_proceed(identity, group) ==
    LET rs == _get_superadmin_roles
        is_user_super ==
            IF Truthy(identity) THEN _is_user_superadmin(identity, rs) ELSE FALSE
        is_group_super ==
            IF group # NoRecord THEN _is_group_superadmin(group.id, rs) ELSE FALSE
    IN  IF rs = {} THEN Decision(TRUE, 1)
        ELSE IF ~Truthy(identity) \/ group = NoRecord
        THEN IF Truthy(identity)
             THEN (IF is_user_super THEN Decision(TRUE, 0) ELSE Decision(TRUE, 1))
             ELSE IF group # NoRecord
             THEN (IF is_group_super THEN Decision(FALSE, NoneIndex)
                                     ELSE Decision(TRUE, 1))
             ELSE Decision(TRUE, 1)
        ELSE GroupOptions(is_user_super, is_group_super)

IfUserActionRoleMatches_should_action_proceed_NoEmptyCheck(identity, group) ==
    IF Truthy(identity)
    THEN (IF _is_user_superadmin(identity, _get_superadmin_roles)
          THEN Decision(TRUE, 0) ELSE Decision(TRUE, 1))
    ELSE Decision(FALSE, NoneIndex)

IfUserActionRoleMatches_should_action_proceed(identity, group) ==
    LET rs == _get_superadmin_roles
    IN  IF rs = {} THEN Decision(TRUE, 1)
        ELSE IF Truthy(identity)
        THEN (IF _is_user_superadmin(identity, rs)
              THEN Decision(TRUE, 0) ELSE Decision(TRUE, 1))
        ELSE Decision(FALSE, NoneIndex)

----------------------------------------------------------------------------
(* SpecGen: the generators applied to one identity and one target *)

NoGen == [fn |-> "none", identity |-> NoIdentity, record |-> NoRecord,
          result |-> Decision(FALSE, NoneIndex), generator |-> ""]

GroupTargets == {NoRecord} \cup {GroupRecord(g) : g \in DOMAIN roles}
UserTargets == {NoRecord} \cup {UserRecord(u) : u \in Users}

\* the roles of the test fixtures: the superuser group, the moderators' role
\* and one group that is not managed
FixtureRoles(admins, moderators, others) ==
    (1 :> [name |-> "admin", description |-> "d0", is_managed |-> TRUE,
           users |-> admins])
    @@ (2 :> [name |-> USER_MANAGEMENT_ACTION_NAME, description |-> "d0",
              is_managed |-> TRUE, users |-> moderators])
    @@ (3 :> [name |-> "it-dep", description |-> "d0", is_managed |-> FALSE,
              users |-> others])

InitGen ==
    /\ \E admins \in SUBSET Users, moderators \in SUBSET Users :
           roles = FixtureRoles(admins, moderators, {})
    /\ superuser_roles \in SUBSET {1, 2}
    /\ moderation_roles = {2}
    /\ uow = << >>
    /\ last = [op |-> "none", identity |-> NoIdentity, id |-> 0, outcome |-> "none",
               checked |-> FALSE, hits |-> {}, data |-> "", user |-> 0,
               result |-> "", entries |-> {}, steps |-> << >>, name |-> "",
               raise_errors |-> TRUE, submitted |-> [name |-> "", description |-> ""]]
    /\ commits = 0
    /\ gen = NoGen
    /\ http = NoHttp
    /\ accounts = FixtureAccounts

ApplyGroupActionRoleMatches ==
    \E identity \in AllIdentities, group \in GroupTargets :
        /\ gen' = [fn |-> "IfGroupActionRoleMatches._should_action_proceed",
                   identity |-> identity, record |-> group,
                   result |-> IfGroupActionRoleMatches_should_action_proceed(identity, group),
                   generator |-> ""]
        /\ http' = NoHttp
        /\ UNCHANGED <<roles, superuser_roles, moderation_roles, uow, last, commits, accounts>>

ApplyUserActionRoleMatches ==
    \E identity \in AllIdentities, user \in UserTargets :
        /\ gen' = [fn |-> "IfUserActionRoleMatches._should_action_proceed",
                   identity |-> identity, record |-> user,
                   result |-> IfUserActionRoleMatches_should_action_proceed(identity, user),
                   generator |-> ""]
        /\ http' = NoHttp
        /\ UNCHANGED <<roles, superuser_roles, moderation_roles, uow, last, commits, accounts>>

----------------------------------------------------------------------------
(* Generators as values: a permission policy is a list of generator objects *)

Generator(cls, action, then_, else_) ==
    [cls |-> cls, action |-> action, then_ |-> then_, else_ |-> else_]

\* invenio_records_permissions generators used by the policy
SystemProcess == Generator("SystemProcess", "", << >>, << >>)
AuthenticatedUser == Generator("AuthenticatedUser", "", << >>, << >>)
AdminAction(action) == Generator("AdminAction", action, << >>, << >>)

\* the generators of this repository
AdministratorGroupAction(action) ==
    Generator("AdministratorGroupAction", action, << >>, << >>)
IfGroupNotManaged(then_, else_) == Generator("IfGroupNotManaged", "", then_, else_)
IfSuperUser(then_, else_) == Generator("IfSuperUser", "", then_, else_)
IfGroupActionRoleMatches(then_, else_) ==
    Generator("IfGroupActionRoleMatches", "", then_, else_)
IfUserActionRoleMatches(then_, else_) ==
    Generator("IfUserActionRoleMatches", "", then_, else_)

ConditionalClasses ==
    {"IfGroupNotManaged", "IfSuperUser", "IfGroupActionRoleMatches",
     "IfUserActionRoleMatches", "IfPublic"}

\* the generators for users
AnyUser == Generator("AnyUser", "", << >>, << >>)
Self == Generator("Self", "", << >>, << >>)
AdministratorUserAction(action) ==
    Generator("AdministratorUserAction", action, << >>, << >>)
\* IfPublic.__init__: _field_name is kept in the action slot
IfPublic(field_name, then_, else_) == Generator("IfPublic", field_name, then_, else_)
IfPublicEmail(then_, else_) == IfPublic("email_visibility", then_, else_)
IfPublicUser(then_, else_) == IfPublic("visibility", then_, else_)

\* IfPublic._condition
IfPublic_condition_AbsentIsPublic(g, record) ==
    IF record.kind = "none" THEN FALSE
    ELSE Get(record.preferences, g.action, "public") = "public"

IfPublic_condition(g, record) ==
    IF record.kind = "none" THEN FALSE
    ELSE Get(record.preferences, g.action, "restricted") = "public"

\* Self.needs
Self_needs(record) ==
    IF record.kind # "none" THEN {UserNeed(record.id)} ELSE {}

\* IfGroupNotManaged._condition: dict_lookup(record, "is_managed")
IfGroupNotManaged_condition_Inverted(record) ==
    IF record = NoRecord THEN FALSE ELSE roles[record.id].is_managed

IfGroupNotManaged_condition(record) ==
    IF record = NoRecord THEN FALSE ELSE ~roles[record.id].is_managed

\* IfSuperUser._condition
IfSuperUser_condition(identity, record) ==
    IF Truthy(identity) THEN _is_user_superadmin(identity, {}) ELSE FALSE

\* IfActionRoleMatches._condition: _should_action_proceed of the subclass
IfActionRoleMatches_condition(g, identity, record) ==
    IF g.cls = "IfUserActionRoleMatches"
    THEN IfUserActionRoleMatches_should_action_proceed(identity, record)
    ELSE IfGroupActionRoleMatches_should_action_proceed(identity, record)

IfActionRoleMatches_generators_IgnoresRefusal(g, identity, record) ==
    LET result == IfActionRoleMatches_condition(g, identity, record)
    IN  IF result.proceed THEN << g.then_[result.index + 1] >> ELSE << g.then_[2] >>

IfActionRoleMatches_generators_WholeThen(g, identity, record) ==
    LET result == IfActionRoleMatches_condition(g, identity, record)
    IN  IF result.proceed THEN g.then_ ELSE g.else_

\* IfActionRoleMatches._generators: one of the then_ generators, or all of else_
IfActionRoleMatches_generators(g, identity, record) ==
    LET result == IfActionRoleMatches_condition(g, identity, record)
    IN  IF result.proceed THEN << g.then_[result.index + 1] >> ELSE g.else_

\* ConditionalGenerator._generators, overridden by IfActionRoleMatches
Generators(g, identity, record) ==
    CASE g.cls = "IfGroupNotManaged" ->
            IF IfGroupNotManaged_condition(record) THEN g.then_ ELSE g.else_
      [] g.cls = "IfSuperUser" ->
            IF IfSuperUser_condition(identity, record) THEN g.then_ ELSE g.else_
      [] g.cls \in {"IfGroupActionRoleMatches", "IfUserActionRoleMatches"} ->
            IfActionRoleMatches_generators(g, identity, record)
      [] g.cls = "IfPublic" ->
            IF IfPublic_condition(g, record) THEN g.then_ ELSE g.else_
      [] OTHER -> << >>

\* Generator.needs
RECURSIVE Needs(_, _, _)
Needs(g, identity, record) ==
    CASE g.cls = "SystemProcess" -> {system_process}
      [] g.cls = "AuthenticatedUser" -> {authenticated_user}
      [] g.cls \in {"AdminAction", "AdministratorGroupAction", "AdministratorUserAction"} ->
            {ActionNeed(g.action)}
      [] g.cls = "AnyUser" -> {any_user}
      [] g.cls = "Self" -> Self_needs(record)
      [] OTHER ->
            LET chosen == Generators(g, identity, record)
            IN  UNION {Needs(chosen[i], identity, record) : i \in DOMAIN chosen}

----------------------------------------------------------------------------
(* Search queries: a query is the set of indexed groups it matches; the     *)
(* falsy values ([] and None) a filter may return are NoQuery               *)

Query(hits) == [q |-> TRUE, hits |-> hits]
NoQuery == [q |-> FALSE, hits |-> {}]

match_all == Query(DOMAIN roles)
QAnd(a, b) == Query(a.hits \cap b.hits)
QOr(a, b) == Query(a.hits \cup b.hits)
QNot(a) == Query(DOMAIN roles \ a.hits)
\* dsl.Q("terms", name=[...])
TermsName(names) == Query({g \in DOMAIN roles : roles[g].name \in names})
\* dsl.Q("match", is_managed=False)
q_not_managed == Query({g \in DOMAIN roles : ~roles[g].is_managed})

RECURSIVE OrAll(_)
OrAll(qs) ==
    IF Len(qs) = 1 THEN qs[1] ELSE QOr(qs[1], OrAll(Tail(qs)))

\* AdministratorGroupAction.query_filter
AdministratorGroupAction_query_filter_NoExclusion(g, identity) ==
    IF Truthy(identity) /\ Allows({ActionNeed(g.action)}, identity)
    THEN match_all
    ELSE NoQuery

AdministratorGroupAction_query_filter(g, identity) ==
    IF Truthy(identity) /\ Allows({ActionNeed(g.action)}, identity)
    THEN QAnd(match_all, QNot(TermsName(_get_superadmin_groups)))
    ELSE NoQuery

RECURSIVE query_filter(_, _)
RECURSIVE _make_query(_, _)

\* ConditionalGenerator._make_query: the falsy filters dropped, the rest or-ed
_make_query(generators, identity) ==
    LET all == [i \in DOMAIN generators |-> query_filter(generators[i], identity)]
        queries == SelectSeq(all, LAMBDA f : f.q)
    IN  IF queries = << >> THEN NoQuery ELSE OrAll(queries)

IfGroupNotManaged_query_filter_NoRestriction(g, identity) ==
    LET then_query == _make_query(g.then_, identity)
        else_query == _make_query(g.else_, identity)
    IN  IF Truthy(identity) /\ Allows(Needs(g, identity, NoRecord), identity)
        THEN else_query
        ELSE then_query

IfGroupNotManaged_query_filter(g, identity) ==
    LET then_query == _make_query(g.then_, identity)
        else_query == _make_query(g.else_, identity)
    IN  IF Truthy(identity) /\ Allows(Needs(g, identity, NoRecord), identity)
        THEN else_query
        ELSE QAnd(q_not_managed, then_query)

\* IfSuperUser.query_filter
IfSuperUser_query_filter_AlwaysElse(g, identity) == _make_query(g.else_, identity)

IfSuperUser_query_filter(g, identity) ==
    LET then_query == _make_query(g.then_, identity)
        else_query == _make_query(g.else_, identity)
    IN  IF Truthy(identity) /\ _is_user_superadmin(identity, {})
        THEN then_query
        ELSE else_query

\* IfUserActionRoleMatches.query_filter: the generators handed to _make_query
IfUserActionRoleMatches_query_filter_generators(g, identity) ==
    IF Truthy(identity)
    THEN (IF _is_user_superadmin(identity, {})
          THEN << g.then_[1] >>
          ELSE << g.then_[2] >>)
    ELSE g.else_

\* IfUserActionRoleMatches.query_filter
IfUserActionRoleMatches_query_filter(g, identity) ==
    _make_query(IfUserActionRoleMatches_query_filter_generators(g, identity), identity)

\* the index of users: a document for every user and every preferences
\* dictionary the user may have
UserDocs == {[id |-> u, preferences |-> p] : u \in Users, p \in Preferences}

user_match_all == Query(UserDocs)
UserNot(a) == Query(UserDocs \ a.hits)
\* dsl.Q("match", **{"preferences.<field>": value})
MatchPreference(field, value) ==
    Query({d \in UserDocs : field \in DOMAIN d.preferences /\ d.preferences[field] = value})
\* dsl.Q("term", id=value) and dsl.Q("terms", id=[...])
TermsId(ids) == Query({d \in UserDocs : d.id \in ids})

\* IfPublic.query_filter
IfPublic_query_filter_ThenUnfiltered(g, identity) ==
    LET q_public == MatchPreference(g.action, "public")
        q_restricted == MatchPreference(g.action, "restricted")
        then_query == _make_query(g.then_, identity)
        else_query == _make_query(g.else_, identity)
    IN  IF then_query.q /\ else_query.q
        THEN QOr(QAnd(q_public, then_query), QAnd(q_restricted, else_query))
        ELSE IF then_query.q THEN then_query
        ELSE IF else_query.q THEN QOr(q_public, QAnd(q_restricted, else_query))
        ELSE q_public

IfPublic_query_filter(g, identity) ==
    LET q_public == MatchPreference(g.action, "public")
        q_restricted == MatchPreference(g.action, "restricted")
        then_query == _make_query(g.then_, identity)
        else_query == _make_query(g.else_, identity)
    IN  IF then_query.q /\ else_query.q
        THEN QOr(QAnd(q_public, then_query), QAnd(q_restricted, else_query))
        ELSE IF then_query.q THEN QAnd(q_public, then_query)
        ELSE IF else_query.q THEN QOr(q_public, QAnd(q_restricted, else_query))
        ELSE q_public

\* Self.query_filter
Self_query_filter(identity) ==
    IF Truthy(identity) /\ \E need \in Provides(identity) : need.method = "id"
    THEN TermsId({(CHOOSE need \in Provides(identity) : need.method = "id").value})
    ELSE NoQuery

\* AdministratorUserAction.query_filter
AdministratorUserAction_query_filter_NoExclusion(g, identity) ==
    IF Truthy(identity) /\ Allows({ActionNeed(g.action)}, identity)
    THEN user_match_all
    ELSE NoQuery

AdministratorUserAction_query_filter(g, identity) ==
    IF Truthy(identity) /\ Allows({ActionNeed(g.action)}, identity)
    THEN QAnd(user_match_all, UserNot(TermsId(_get_superadmin_users)))
    ELSE NoQuery

\* Generator.query_filter
query_filter(g, identity) ==
    CASE g.cls = "SystemProcess" ->
            IF Truthy(identity) /\ system_process \in Provides(identity)
            THEN match_all ELSE NoQuery
      [] g.cls = "AuthenticatedUser" -> match_all
      [] g.cls = "AdminAction" ->
            IF Truthy(identity) /\ Allows({ActionNeed(g.action)}, identity)
            THEN match_all ELSE NoQuery
      [] g.cls = "AdministratorGroupAction" -> AdministratorGroupAction_query_filter(g, identity)
      [] g.cls = "IfGroupNotManaged" -> IfGroupNotManaged_query_filter(g, identity)
      [] g.cls = "IfSuperUser" -> IfSuperUser_query_filter(g, identity)
      [] g.cls = "IfUserActionRoleMatches" -> IfUserActionRoleMatches_query_filter(g, identity)
      [] g.cls = "AnyUser" -> user_match_all
      [] g.cls = "Self" -> Self_query_filter(identity)
      [] g.cls = "IfPublic" -> IfPublic_query_filter(g, identity)
      [] g.cls = "AdministratorUserAction" -> AdministratorUserAction_query_filter(g, identity)
      [] OTHER -> NoQuery

----------------------------------------------------------------------------
(* The groups permission policy (services/permissions.py), as the tests use *)
(* it: who may create, read, search, update, manage and delete a group      *)

SuperUser == AdminAction(SUPERUSER_ACTION_NAME)
GroupManager == AdministratorGroupAction(USER_MANAGEMENT_ACTION_NAME)

GroupsPermissionPolicy(action_name) ==
    CASE action_name = "create" -> << GroupManager >>
      [] action_name = "read" ->
            << SystemProcess,
               IfGroupNotManaged(<< AuthenticatedUser >>,
                                 << IfSuperUser(<< SuperUser >>, << GroupManager >>) >>) >>
      [] action_name = "search" -> << SystemProcess, AuthenticatedUser >>
      [] action_name \in {"update", "manage", "delete"} ->
            << IfGroupActionRoleMatches(<< SuperUser, GroupManager >>, << >>) >>
      [] OTHER -> << >>

\* BasePermissionPolicy.needs: the needs of all the generators of the action
PolicyNeeds(action_name, identity, record) ==
    LET gens == GroupsPermissionPolicy(action_name)
    IN  UNION {Needs(gens[i], identity, record) : i \in DOMAIN gens}

\* BasePermissionPolicy.query_filters, or-ed by the search
PolicyQuery(action_name, identity) ==
    _make_query(GroupsPermissionPolicy(action_name), identity)

----------------------------------------------------------------------------
(* services/groups/service.py: GroupsService *)

\* GroupsService.check_permission (permission_policy(...).allows(identity))
check_permission(identity, action_name, record) ==
    Allows(PolicyNeeds(action_name, identity, record), identity)

\* GroupAggregate.get_record: the group with this id, or None
get_record(id_) ==
    IF id_ \in DOMAIN roles THEN GroupRecord(id_) ELSE NoRecord

\* GroupAggregate.get_record_by_name: the group with this name, or None
get_record_by_name(name_) ==
    IF \E g \in DOMAIN roles : roles[g].name = name_
    THEN GroupRecord(CHOOSE g \in DOMAIN roles : roles[g].name = name_)
    ELSE NoRecord

\* a call and what came of it: `checked` tells whether the permission policy
\* was evaluated, `hits` holds the ids returned, `data` the description
\* written and `name` the name submitted, `user` the user_id argument, `result`
\* the kind of value returned, `entries` the dictionaries of the result,
\* `steps` the statements of the handler that ran, in the order they ran,
\* `submitted` the dictionary a create was given
\* the data of a call that submits none
NoData == [name |-> "", description |-> ""]

Call(op, identity, id_, outcome, checked, hits) ==
    [op |-> op, identity |-> identity, id |-> id_, outcome |-> outcome,
     checked |-> checked, hits |-> hits, data |-> "", user |-> 0,
     result |-> "", entries |-> {}, steps |-> << >>, name |-> "",
     raise_errors |-> TRUE, submitted |-> NoData]

NoCall == Call("none", NoIdentity, 0, "none", FALSE, {})

\* RecordCommitOp(group, indexer=self.indexer, index_refresh=True)
RecordCommitOp(id_) == [op |-> "RecordCommitOp", id |-> id_, index_refresh |-> TRUE]
RecordDeleteOp(id_) == [op |-> "RecordDeleteOp", id |-> id_, index_refresh |-> TRUE]

\* the ids and names a caller may pass: those of the table and one of no group
CallIds == DOMAIN roles \cup {MissingId}
CallNames == {roles[g].name : g \in DOMAIN roles} \cup {MissingName}
\* the user the tests add to and remove from groups
ManagedUsers == {MaxUser}

\* the accounts table: the columns of a user that a result may show
UserRow(u) ==
    [id |-> u, username |-> "user" \o ToString(u),
     email |-> "user" \o ToString(u) \o "@inveniosoftware.org"]

\* GroupAggregate.get_users: the users holding the role
get_users(id_) == {UserRow(u) : u \in roles[id_].users}

\* result_item(...).data: the group as the service returns it
result_item(id_, rs) ==
    [id |-> id_, name |-> rs[id_].name, description |-> rs[id_].description,
     is_managed |-> rs[id_].is_managed]

\* the statements of the handlers, as `steps` names them
S_get == "get_record"
S_perm == "require_permission"
S_load == "schema.load"
S_mutate == "mutate"
S_comp == "run_components"
S_reg == "uow.register"

\* a call refused or failed: nothing is written, nothing is registered
Raise(op, identity, id_, error, checked, steps) ==
    /\ last' = [Call(op, identity, id_, error, checked, {}) EXCEPT !.steps = steps]
    /\ uow' = << >>
    /\ UNCHANGED <<roles, superuser_roles, moderation_roles, commits, gen, accounts>>

\* a call that only reads and is served: nothing is written
Return(call) ==
    /\ last' = call
    /\ uow' = << >>
    /\ UNCHANGED <<roles, superuser_roles, moderation_roles, commits, gen, accounts>>

\* the outcome of a call that only reads: refused without a policy evaluation
\* when there is no group, refused by the policy, or served
ReadOnly(op, identity, id_, group, action_name, hits) ==
    IF group = NoRecord
    THEN Raise(op, identity, id_, "PermissionDeniedError", FALSE, << S_get >>)
    ELSE IF ~check_permission(identity, action_name, group)
    THEN Raise(op, identity, id_, "PermissionDeniedError", TRUE, << S_get, S_perm >>)
    ELSE Return([Call(op, identity, id_, "ok", TRUE, hits)
                    EXCEPT !.steps = << S_get, S_perm >>,
                           !.result = IF op = "read" THEN "item" ELSE "avatar",
                           !.entries = IF op = "read" THEN {result_item(id_, roles)}
                                       ELSE {}])

read_NotFound(identity, id_) ==
    IF get_record(id_) = NoRecord
    THEN Raise("read", identity, id_, "NotFoundError", FALSE, << S_get >>)
    ELSE ReadOnly("read", identity, id_, get_record(id_), "read", {id_})

read(identity, id_) ==
    ReadOnly("read", identity, id_, get_record(id_), "read", {id_})

read_avatar(identity, name_) ==
    LET group == get_record_by_name(name_)
    IN  ReadOnly("read_avatar", identity,
                 IF group = NoRecord THEN MissingId ELSE group.id,
                 group, "read",
                 IF group = NoRecord THEN {} ELSE {group.id})

\* the dictionary list_users builds for one user of the group
list_users_hit(user) == [id |-> user.id, username |-> user.username]

list_users(identity, id_) ==
    LET group == get_record(id_)
    IN  IF group = NoRecord
        THEN Raise("list_users", identity, id_, "PermissionDeniedError", FALSE, << S_get >>)
        ELSE IF ~check_permission(identity, "read", group)
        THEN Raise("list_users", identity, id_, "PermissionDeniedError", TRUE,
                   << S_get, S_perm >>)
        ELSE Return([Call("list_users", identity, id_, "ok", TRUE,
                          {user.id : user \in get_users(id_)})
                        EXCEPT !.steps = << S_get, S_perm >>,
                               !.result = "hits",
                               !.entries = {list_users_hit(user) : user \in get_users(id_)}])

\* RecordService.search: the "search" permission, then the filter of "read"
search(identity) ==
    IF ~check_permission(identity, "search", NoRecord)
    THEN Raise("search", identity, 0, "PermissionDeniedError", TRUE, << S_perm >>)
    ELSE Return([Call("search", identity, 0, "ok", TRUE,
                      PolicyQuery("read", identity).hits)
                    EXCEPT !.steps = << S_perm >>, !.result = "hits"])

NoName == ""
\* a description the schema does not accept, and the description of a role
\* created without one
InvalidDescription == "not a valid description"
NoDescription == ""
DescriptionInvalid == "Not a valid description."
NameUsed == "Name already used by another group."
NameMissing == "Unexpected Issue: 'name'"

\* schema.load: the fields of the submitted data found invalid (the name of a
\* new group must not be the name of a group)
SchemaErrors(data) ==
    (IF data.name # NoName /\ \E g \in DOMAIN roles : roles[g].name = data.name
     THEN {"name"}
     ELSE {})
    \cup (IF data.description = InvalidDescription THEN {"description"} ELSE {})

\* the id given to a new role
NewId == CHOOSE g \in GroupIds \ DOMAIN roles : \A h \in GroupIds \ DOMAIN roles : g <= h

\* GroupAggregate.create: the role built from the validated data
NewRole(data) ==
    [name |-> data.name, description |-> data.description, is_managed |-> TRUE,
     users |-> {}]

\* a call that went through: the table written, the operation registered with
\* the unit of work, which commits when the call returns
Commit(call, new_roles, registered) ==
    /\ commits < MaxCommits
    /\ roles' = new_roles
    /\ uow' = << registered >>
    /\ last' = call
    /\ commits' = commits + 1
    /\ UNCHANGED <<superuser_roles, moderation_roles, gen, accounts>>

\* the record of a served mutation
Served(op, identity, id_, data, user_id, result, steps) ==
    [Call(op, identity, id_, "ok", TRUE, {})
        EXCEPT !.data = data, !.user = user_id, !.result = result, !.steps = steps]

\* the record of a served create or update, which return the group written
ServedItem(op, identity, id_, data, new_roles, steps) ==
    [Served(op, identity, id_, data.description, 0, "item", steps)
        EXCEPT !.entries = {result_item(id_, new_roles)},
               !.name = IF op = "create" THEN data.name ELSE "",
               !.submitted = IF op = "create" THEN data ELSE NoData]

\* a ValidationError carrying its messages
Invalid(op, identity, data, message, steps, raise_errors) ==
    /\ last' = [Call(op, identity, 0, "ValidationError", TRUE, {})
                   EXCEPT !.data = message, !.steps = steps, !.name = data.name,
                          !.raise_errors = raise_errors, !.submitted = data]
    /\ uow' = << >>
    /\ UNCHANGED <<roles, superuser_roles, moderation_roles, commits, gen, accounts>>

\* the data schema.load returns: the fields found invalid are left out
ValidData(data) ==
    [data EXCEPT !.name = IF "name" \in SchemaErrors(data) THEN NoName ELSE @,
                 !.description = IF "description" \in SchemaErrors(data)
                                 THEN NoDescription ELSE @]

\* the steps of a create from schema.load on: the errors raised if asked, the
\* role created from the valid data, the commit operation registered
CreateValidated(identity, data, raise_errors, before) ==
    IF SchemaErrors(data) # {} /\ raise_errors
    THEN Invalid("create", identity, data,
                 IF "name" \in SchemaErrors(data) THEN NameUsed ELSE DescriptionInvalid,
                 before \o << S_load >>, raise_errors)
    ELSE IF ValidData(data).name = NoName
    THEN Invalid("create", identity, data, NameMissing,
                 before \o << S_load, S_mutate >>, raise_errors)
    ELSE /\ GroupIds \ DOMAIN roles # {}
         /\ Commit([ServedItem("create", identity, NewId, ValidData(data),
                               roles @@ (NewId :> NewRole(ValidData(data))),
                               before \o << S_load, S_mutate, S_comp, S_reg >>)
                       EXCEPT !.raise_errors = raise_errors, !.submitted = data],
                   roles @@ (NewId :> NewRole(ValidData(data))), RecordCommitOp(NewId))

create_MutatesBeforeCheck(identity, data, raise_errors) ==
    IF SchemaErrors(data) # {} \/ data.name = NoName \/ GroupIds \ DOMAIN roles = {}
       \/ check_permission(identity, "create", NoRecord)
    THEN CreateValidated(identity, data, raise_errors, << >>)
    ELSE /\ commits < MaxCommits
         /\ roles' = roles @@ (NewId :> NewRole(data))
         /\ uow' = << >>
         /\ last' = [Call("create", identity, 0, "PermissionDeniedError", TRUE, {})
                        EXCEPT !.steps = << S_load, S_mutate, S_perm >>]
         /\ commits' = commits + 1
         /\ UNCHANGED <<superuser_roles, moderation_roles, gen, accounts>>

create_NoValidation(identity, data, raise_errors) ==
    IF ~check_permission(identity, "create", NoRecord)
    THEN Raise("create", identity, 0, "PermissionDeniedError", TRUE, << S_perm >>)
    ELSE IF data.name = NoName
    THEN Invalid("create", identity, data, NameMissing, << S_perm, S_load, S_mutate >>,
                 raise_errors)
    ELSE /\ GroupIds \ DOMAIN roles # {}
         /\ Commit([ServedItem("create", identity, NewId, data,
                               roles @@ (NewId :> NewRole(data)),
                               << S_perm, S_load, S_mutate, S_comp, S_reg >>)
                       EXCEPT !.raise_errors = raise_errors],
                   roles @@ (NewId :> NewRole(data)), RecordCommitOp(NewId))

create_StoresInvalid(identity, data, raise_errors) ==
    IF ~check_permission(identity, "create", NoRecord)
    THEN Raise("create", identity, 0, "PermissionDeniedError", TRUE, << S_perm >>)
    ELSE IF raise_errors \/ ValidData(data).name = NoName
            \/ "description" \notin SchemaErrors(data)
    THEN CreateValidated(identity, data, raise_errors, << S_perm >>)
    ELSE /\ GroupIds \ DOMAIN roles # {}
         /\ Commit([ServedItem("create", identity, NewId, data,
                               roles @@ (NewId :> NewRole(data)),
                               << S_perm, S_load, S_mutate, S_comp, S_reg >>)
                       EXCEPT !.raise_errors = raise_errors],
                   roles @@ (NewId :> NewRole(data)), RecordCommitOp(NewId))

create_StoresSubmitted(identity, data, raise_errors) ==
    LET role == [NewRole(data) EXCEPT !.is_managed = Get(data, "is_managed", TRUE)]
        written == roles @@ (NewId :> role)
    IN  IF ~check_permission(identity, "create", NoRecord) \/ SchemaErrors(data) # {}
           \/ data.name = NoName
        THEN IF ~check_permission(identity, "create", NoRecord)
             THEN Raise("create", identity, 0, "PermissionDeniedError", TRUE, << S_perm >>)
             ELSE CreateValidated(identity, data, raise_errors, << S_perm >>)
        ELSE /\ GroupIds \ DOMAIN roles # {}
             /\ Commit([ServedItem("create", identity, NewId, data, written,
                                   << S_perm, S_load, S_mutate, S_comp, S_reg >>)
                           EXCEPT !.raise_errors = raise_errors],
                       written, RecordCommitOp(NewId))

create(identity, data, raise_errors) ==
    IF ~check_permission(identity, "create", NoRecord)
    THEN Raise("create", identity, 0, "PermissionDeniedError", TRUE, << S_perm >>)
    ELSE CreateValidated(identity, data, raise_errors, << S_perm >>)

\* GroupAggregate.update: the role with the submitted description
UpdatedRoles(id_, data) == [roles EXCEPT ![id_].description = data.description]

update_WritesNothing(identity, id_, data) ==
    LET group == get_record(id_)
    IN  IF group = NoRecord
        THEN Raise("update", identity, id_, "PermissionDeniedError", FALSE, << S_get >>)
        ELSE IF ~check_permission(identity, "update", group)
        THEN Raise("update", identity, id_, "PermissionDeniedError", TRUE,
                   << S_get, S_perm >>)
        ELSE Commit(ServedItem("update", identity, id_, data, UpdatedRoles(id_, data),
                               << S_get, S_perm, S_load, S_mutate, S_comp, S_reg >>),
                    roles, RecordCommitOp(id_))

update(identity, id_, data) ==
    LET group == get_record(id_)
    IN  IF group = NoRecord
        THEN Raise("update", identity, id_, "PermissionDeniedError", FALSE, << S_get >>)
        ELSE IF ~check_permission(identity, "update", group)
        THEN Raise("update", identity, id_, "PermissionDeniedError", TRUE,
                   << S_get, S_perm >>)
        ELSE Commit(ServedItem("update", identity, id_, data, UpdatedRoles(id_, data),
                               << S_get, S_perm, S_load, S_mutate, S_comp, S_reg >>),
                    UpdatedRoles(id_, data), RecordCommitOp(id_))

add_user_RegistersFirst(identity, id_, user_id) ==
    LET group == get_record(id_)
    IN  IF group = NoRecord
        THEN Raise("add_user", identity, id_, "PermissionDeniedError", FALSE, << S_get >>)
        ELSE IF ~check_permission(identity, "manage", group)
        THEN /\ last' = [Call("add_user", identity, id_, "PermissionDeniedError", TRUE, {})
                            EXCEPT !.steps = << S_get, S_reg, S_perm >>]
             /\ uow' = << RecordCommitOp(id_) >>
             /\ UNCHANGED <<roles, superuser_roles, moderation_roles, commits, gen, accounts>>
        ELSE Commit(Served("add_user", identity, id_, "", user_id, "True",
                           << S_get, S_reg, S_perm, S_mutate >>),
                    [roles EXCEPT ![id_].users = @ \cup {user_id}],
                    RecordCommitOp(id_))

add_user(identity, id_, user_id) ==
    LET group == get_record(id_)
    IN  IF group = NoRecord
        THEN Raise("add_user", identity, id_, "PermissionDeniedError", FALSE, << S_get >>)
        ELSE IF ~check_permission(identity, "manage", group)
        THEN Raise("add_user", identity, id_, "PermissionDeniedError", TRUE,
                   << S_get, S_perm >>)
        ELSE Commit(Served("add_user", identity, id_, "", user_id, "True",
                           << S_get, S_perm, S_mutate, S_reg >>),
                    [roles EXCEPT ![id_].users = @ \cup {user_id}],
                    RecordCommitOp(id_))

remove_user_KeepsMember(identity, id_, user_id) ==
    LET group == get_record(id_)
    IN  IF group = NoRecord
        THEN Raise("remove_user", identity, id_, "PermissionDeniedError", FALSE, << S_get >>)
        ELSE IF ~check_permission(identity, "manage", group)
        THEN Raise("remove_user", identity, id_, "PermissionDeniedError", TRUE,
                   << S_get, S_perm >>)
        ELSE Commit(Served("remove_user", identity, id_, "", user_id, "True",
                           << S_get, S_perm, S_mutate, S_reg >>),
                    roles, RecordCommitOp(id_))

remove_user(identity, id_, user_id) ==
    LET group == get_record(id_)
    IN  IF group = NoRecord
        THEN Raise("remove_user", identity, id_, "PermissionDeniedError", FALSE, << S_get >>)
        ELSE IF ~check_permission(identity, "manage", group)
        THEN Raise("remove_user", identity, id_, "PermissionDeniedError", TRUE,
                   << S_get, S_perm >>)
        ELSE Commit(Served("remove_user", identity, id_, "", user_id, "True",
                           << S_get, S_perm, S_mutate, S_reg >>),
                    [roles EXCEPT ![id_].users = @ \ {user_id}],
                    RecordCommitOp(id_))

\* GroupsService.delete as the tests call it: a group still referenced by an
\* ActionRoles row is not deleted (ForeignKeyIntegrityError)
delete(identity, id_) ==
    LET group == get_record(id_)
    IN  IF group = NoRecord
        THEN Raise("delete", identity, id_, "PermissionDeniedError", FALSE, << S_get >>)
        ELSE IF ~check_permission(identity, "delete", group)
        THEN Raise("delete", identity, id_, "PermissionDeniedError", TRUE,
                   << S_get, S_perm >>)
        ELSE IF id_ \in superuser_roles \cup moderation_roles
        THEN Raise("delete", identity, id_, "ForeignKeyIntegrityError", TRUE,
                   << S_get, S_perm, S_mutate >>)
        ELSE Commit(Served("delete", identity, id_, "", 0, "",
                           << S_get, S_perm, S_mutate, S_reg >>),
                    [g \in DOMAIN roles \ {id_} |-> roles[g]],
                    RecordDeleteOp(id_))

----------------------------------------------------------------------------
(* Spec: the groups service called by the identities of requests *)

CreateData == [name : NewNames \cup {NoName}, description : {"d0"}]
UpdateData == [description : Descriptions]

Init ==
    /\ roles \in {FixtureRoles({1}, {2}, {}),
                  [g \in {1, 2} |-> FixtureRoles({1}, {2}, {})[g]]}
    /\ superuser_roles = {1}
    /\ moderation_roles = {2}
    /\ uow = << >>
    /\ last = NoCall
    /\ commits = 0
    /\ gen = NoGen
    /\ http = NoHttp
    /\ accounts = FixtureAccounts

Read ==
    \E identity \in GivenIdentities, id_ \in CallIds :
        read(identity, id_) /\ UNCHANGED http
ReadAvatar ==
    \E identity \in GivenIdentities, name_ \in CallNames :
        read_avatar(identity, name_) /\ UNCHANGED http
ListUsers ==
    \E identity \in GivenIdentities, id_ \in CallIds :
        list_users(identity, id_) /\ UNCHANGED http
Search == \E identity \in GivenIdentities : search(identity) /\ UNCHANGED http
Create ==
    \E identity \in RequestIdentities, data \in CreateData, raise_errors \in BOOLEAN :
        create(identity, data, raise_errors) /\ UNCHANGED http
Update ==
    \E identity \in RequestIdentities, id_ \in CallIds, data \in UpdateData :
        update(identity, id_, data) /\ UNCHANGED http
AddUser ==
    \E identity \in RequestIdentities, id_ \in CallIds, user_id \in ManagedUsers :
        add_user(identity, id_, user_id) /\ UNCHANGED http
RemoveUser ==
    \E identity \in RequestIdentities, id_ \in CallIds, user_id \in ManagedUsers :
        remove_user(identity, id_, user_id) /\ UNCHANGED http
Delete ==
    \E identity \in RequestIdentities, id_ \in CallIds :
        delete(identity, id_) /\ UNCHANGED http

Next ==
    \/ Read
    \/ ReadAvatar
    \/ ListUsers
    \/ Search
    \/ Create
    \/ Update
    \/ AddUser
    \/ RemoveUser
    \/ Delete

Spec == Init /\ [][Next]_vars

----------------------------------------------------------------------------
(* SpecCreate: groups created from data that say is_managed or do not *)

\* the dictionaries submitted: with is_managed False or True or without the
\* key, as the tests submit them, and with a description the schema rejects
SubmittedData ==
    CreateData
    \cup [name : NewNames \cup {NoName}, description : {"d0"}, is_managed : BOOLEAN]
    \cup [name : NewNames \cup {NoName}, description : {InvalidDescription}]

CreateSubmitted ==
    \E identity \in GivenIdentities, data \in SubmittedData, raise_errors \in BOOLEAN :
        create(identity, data, raise_errors) /\ UNCHANGED http

NextCreate ==
    \/ CreateSubmitted
    \/ Read
    \/ Update

SpecCreate == Init /\ [][NextCreate]_vars

----------------------------------------------------------------------------
(* resources/groups: GroupsResourceConfig and GroupsResource *)

\* GroupsResourceConfig.routes
routes == {"list", "item", "item-avatar", "manage-user", "users"}
Methods == {"GET", "POST", "PUT", "DELETE"}

Rule(method, route, view) == [method |-> method, route |-> route, view |-> view]

\* GroupsResource.create_url_rules
create_url_rules ==
    {Rule("GET", "list", "search"),
     Rule("POST", "list", "create"),
     Rule("GET", "item", "read"),
     Rule("PUT", "item", "update"),
     Rule("GET", "item-avatar", "avatar"),
     Rule("PUT", "manage-user", "add_user"),
     Rule("DELETE", "manage-user", "remove_user"),
     Rule("GET", "users", "users")}

Handled(code, description) == [code |-> code, description |-> description]

\* ErrorHandlersMixin.error_handlers: the default mapping; an exception with
\* no handler is answered 500
ErrorHandlersMixin_error_handlers(e) ==
    CASE e.cls = "PermissionDeniedError" -> Handled(403, "Permission denied.")
      [] e.cls = "ValidationError" -> Handled(400, "A validation error occurred.")
      [] e.cls = "NoResultFound" -> Handled(404, "Not found.")
      [] e.cls = "QuerystringValidationError" -> Handled(400, "Invalid querystring parameters.")
      [] OTHER -> Handled(500, "Internal Server Error")

ForeignKeyDescription == "You're deleing a group that might be used elsewhere."

\* GroupsResourceConfig.error_handlers
error_handlers_Unregistered(e) == ErrorHandlersMixin_error_handlers(e)

error_handlers(e) ==
    IF e.cls = "ForeignKeyIntegrityError"
    THEN Handled(403, ForeignKeyDescription)
    ELSE ErrorHandlersMixin_error_handlers(e)

\* the response of a view whose service call is described by last'
Respond(view, identity) ==
    LET rule == CHOOSE r \in create_url_rules : r.view = view
        raised == Exception(last'.outcome, last'.data)
        handled == error_handlers(raised)
    IN  http' = IF last'.outcome = "ok"
                THEN Exchange(rule.method, rule.route, identity, last'.id,
                              IF view = "create" THEN 201 ELSE 200, "", NoException)
                ELSE Exchange(rule.method, rule.route, identity, last'.id,
                              handled.code, handled.description, raised)

\* the name a request for /<id>/avatar.svg carries
AvatarName(id_) == IF id_ \in DOMAIN roles THEN roles[id_].name ELSE MissingName

GroupsResource_search ==
    \E identity \in RequestIdentities :
        search(identity) /\ Respond("search", identity)
GroupsResource_read ==
    \E identity \in RequestIdentities, id_ \in CallIds :
        read(identity, id_) /\ Respond("read", identity)
GroupsResource_avatar ==
    \E identity \in RequestIdentities, id_ \in CallIds :
        read_avatar(identity, AvatarName(id_)) /\ Respond("avatar", identity)
GroupsResource_create ==
    \E identity \in RequestIdentities, data \in CreateData :
        create(identity, data, TRUE) /\ Respond("create", identity)
GroupsResource_update ==
    \E identity \in RequestIdentities, id_ \in CallIds, data \in UpdateData :
        update(identity, id_, data) /\ Respond("update", identity)
GroupsResource_add_user ==
    \E identity \in RequestIdentities, id_ \in CallIds, user_id \in ManagedUsers :
        add_user(identity, id_, user_id) /\ Respond("add_user", identity)
GroupsResource_remove_user ==
    \E identity \in RequestIdentities, id_ \in CallIds, user_id \in ManagedUsers :
        remove_user(identity, id_, user_id) /\ Respond("remove_user", identity)
GroupsResource_users ==
    \E identity \in RequestIdentities, id_ \in CallIds :
        list_users(identity, id_) /\ Respond("users", identity)

\* a request whose method no rule of its route accepts: no view is called, so
\* the request makes no service call and registers nothing
MethodNotAllowed ==
    \E method \in Methods, route \in routes, identity \in RequestIdentities, id_ \in CallIds :
        /\ ~\E r \in create_url_rules : r.method = method /\ r.route = route
        /\ http' = Exchange(method, route, identity, id_, 405, "Method Not Allowed",
                            NoException)
        /\ last' = NoCall
        /\ uow' = << >>
        /\ UNCHANGED <<roles, superuser_roles, moderation_roles, commits, gen, accounts>>

InitHttp ==
    /\ roles = FixtureRoles({1}, {2}, {})
    /\ superuser_roles = {1}
    /\ moderation_roles = {2}
    /\ uow = << >>
    /\ last = NoCall
    /\ commits = 0
    /\ gen = NoGen
    /\ http = NoHttp
    /\ accounts = FixtureAccounts

NextHttp ==
    \/ GroupsResource_search
    \/ GroupsResource_read
    \/ GroupsResource_avatar
    \/ GroupsResource_create
    \/ GroupsResource_update
    \/ GroupsResource_add_user
    \/ GroupsResource_remove_user
    \/ GroupsResource_users
    \/ MethodNotAllowed

SpecHttp == InitHttp /\ [][NextHttp]_vars

----------------------------------------------------------------------------
(* SpecGen: the pure functions applied to inputs drawn from bounded sets *)

ExceptionClasses ==
    {"ForeignKeyIntegrityError", "PermissionDeniedError", "ValidationError",
     "NoResultFound", "QuerystringValidationError", "KeyError"}
ExceptionMessages == {"", NameUsed, "role is still referenced"}

\* the registered error handler applied to an exception a view raised
ApplyErrorHandlers ==
    \E cls \in ExceptionClasses, message \in ExceptionMessages :
        LET handled == error_handlers(Exception(cls, message))
        IN  /\ http' = Exchange("", "", NoIdentity, 0, handled.code, handled.description,
                                Exception(cls, message))
            /\ gen' = NoGen
            /\ UNCHANGED <<roles, superuser_roles, moderation_roles, uow, last, commits, accounts>>

NextGen ==
    \/ ApplyGroupActionRoleMatches
    \/ ApplyUserActionRoleMatches
    \/ ApplyErrorHandlers

SpecGen == InitGen /\ [][NextGen]_vars

----------------------------------------------------------------------------
(* The users permission policy (services/permissions.py) and the read of a  *)
(* user, as the tests use them                                              *)

UserManager == AdministratorUserAction(USER_MANAGEMENT_ACTION_NAME)

UsersPermissionPolicy(action_name) ==
    CASE action_name = "read" ->
            << UserManager, IfPublicUser(<< AnyUser >>, << Self >>), SystemProcess >>
      [] action_name = "read_email" ->
            << UserManager, IfPublicEmail(<< AnyUser >>, << Self >>), SystemProcess >>
      [] action_name = "read_details" -> << UserManager, Self, SystemProcess >>
      [] action_name = "search" -> << AuthenticatedUser, SystemProcess >>
      [] action_name = "manage" -> << UserManager, SystemProcess >>
      [] OTHER -> << >>

\* UsersService.check_permission
users_check_permission(identity, action_name, record) ==
    LET gens == UsersPermissionPolicy(action_name)
    IN  Allows(UNION {Needs(gens[i], identity, record) : i \in DOMAIN gens}, identity)

\* UsersService.read and read_avatar: whether the user is returned, whether
\* the result shows the email, whether the avatar is returned
users_read(identity, user) ==
    [read |-> users_check_permission(identity, "read", user),
     email |-> /\ users_check_permission(identity, "read", user)
               /\ users_check_permission(identity, "read_email", user),
     avatar |-> users_check_permission(identity, "read", user)]

----------------------------------------------------------------------------
(* SpecUsers: the generators for users applied to inputs from bounded sets *)

UserAggregates == {UserAggregate(u, p) : u \in Users, p \in Preferences}
ThenLists == {<< >>, << AnyUser >>, << Self >>, << AnyUser, Self >>}
ElseLists == {<< >>, << Self >>, << AnyUser >>}

Applied(fn, generator, identity, record, result) ==
    /\ gen' = [fn |-> fn, identity |-> identity, record |-> record, result |-> result,
               generator |-> generator]
    /\ UNCHANGED <<roles, superuser_roles, moderation_roles, uow, last, commits, http, accounts>>

ApplyIfPublicCondition ==
    \E field \in PreferenceFields, record \in UserAggregates \cup {NoRecord} :
        LET g == IfPublic(field, << AnyUser >>, << Self >>)
        IN  Applied("IfPublic._condition", g, NoIdentity, record,
                    IfPublic_condition(g, record))

ApplySelfNeeds ==
    \E record \in UserAggregates \cup {NoRecord} :
        Applied("Self.needs", Self, NoIdentity, record, Self_needs(record))

ApplyUsersRead ==
    \E identity \in GivenIdentities, user \in UserAggregates :
        Applied("UsersService.read", Self, identity, user, users_read(identity, user))

ApplyIfPublicQueryFilter ==
    \E field \in PreferenceFields, then_ \in ThenLists, else_ \in ElseLists,
       identity \in AllIdentities :
        LET g == IfPublic(field, then_, else_)
        IN  Applied("IfPublic.query_filter", g, identity, NoRecord,
                    IfPublic_query_filter(g, identity))

ApplySelfQueryFilter ==
    \E identity \in AllIdentities :
        Applied("Self.query_filter", Self, identity, NoRecord, Self_query_filter(identity))

InitUsers ==
    /\ roles = FixtureRoles({1}, {2}, {})
    /\ superuser_roles = {1}
    /\ moderation_roles = {2}
    /\ uow = << >>
    /\ last = NoCall
    /\ commits = 0
    /\ gen = NoGen
    /\ http = NoHttp
    /\ accounts = FixtureAccounts

NextUsers ==
    \/ ApplyIfPublicCondition
    \/ ApplySelfNeeds
    \/ ApplyUsersRead
    \/ ApplyIfPublicQueryFilter
    \/ ApplySelfQueryFilter

SpecUsers == InitUsers /\ [][NextUsers]_vars

----------------------------------------------------------------------------
(* SpecBranch: the branch a conditional generator takes, for one decision    *)
(* and for a search                                                         *)

\* the lists a policy may give as else_
BranchElseLists == {<< >>, << SystemProcess >>}

ActionRoleGenerators ==
    {IfGroupActionRoleMatches(<< SuperUser, GroupManager >>, else_) : else_ \in BranchElseLists}
    \cup {IfUserActionRoleMatches(<< SuperUser, UserManager >>, else_) :
              else_ \in BranchElseLists}

\* the targets a generator of the class is given
BranchTargets(g) == IF g.cls = "IfUserActionRoleMatches" THEN UserTargets ELSE GroupTargets

\* the decision of _should_action_proceed and the generators selected on it
Selection(decision, selected) == [decision |-> decision, selected |-> selected]

ApplyGenerators ==
    \E g \in ActionRoleGenerators, identity \in AllIdentities :
        \E record \in BranchTargets(g) :
            Applied("IfActionRoleMatches._generators", g, identity, record,
                    Selection(IfActionRoleMatches_condition(g, identity, record),
                              IfActionRoleMatches_generators(g, identity, record)))

\* the generators a filter was built from, and the filter
Built(from, query) == [from |-> from, query |-> query]

ApplyUserQueryFilter ==
    \E g \in ActionRoleGenerators, identity \in AllIdentities :
        /\ g.cls = "IfUserActionRoleMatches"
        /\ Applied("IfUserActionRoleMatches.query_filter", g, identity, NoRecord,
                   Built(IfUserActionRoleMatches_query_filter_generators(g, identity),
                         IfUserActionRoleMatches_query_filter(g, identity)))

ApplyAdministratorUserActionQueryFilter ==
    \E identity \in AllIdentities :
        Applied("AdministratorUserAction.query_filter", UserManager, identity, NoRecord,
                AdministratorUserAction_query_filter(UserManager, identity))

\* IfSuperUser as the read policy of groups builds it, and with other lists
SuperUserGenerators ==
    {IfSuperUser(<< SuperUser >>, << GroupManager >>),
     IfSuperUser(<< AuthenticatedUser >>, << >>)}

ApplyIfSuperUserCondition ==
    \E g \in SuperUserGenerators, identity \in AllIdentities, record \in GroupTargets :
        Applied("IfSuperUser._condition", g, identity, record,
                IfSuperUser_condition(identity, record))

ApplyIfSuperUserQueryFilter ==
    \E g \in SuperUserGenerators, identity \in AllIdentities :
        Applied("IfSuperUser.query_filter", g, identity, NoRecord,
                IfSuperUser_query_filter(g, identity))

InitBranch ==
    /\ roles = FixtureRoles({1}, {2}, {})
    /\ superuser_roles \in SUBSET {1, 2}
    /\ moderation_roles = {2}
    /\ uow = << >>
    /\ last = NoCall
    /\ commits = 0
    /\ gen = NoGen
    /\ http = NoHttp
    /\ accounts = FixtureAccounts

NextBranch ==
    \/ ApplyGenerators
    \/ ApplyUserQueryFilter
    \/ ApplyAdministratorUserActionQueryFilter
    \/ ApplyIfSuperUserCondition
    \/ ApplyIfSuperUserQueryFilter

SpecBranch == InitBranch /\ [][NextBranch]_vars

----------------------------------------------------------------------------
(* generators.py: GroupsEnabled, and SpecExcludes, which applies its         *)
(* excludes to the arguments and the configuration it may meet               *)

MemberTypes == {"user", "group", "email"}

\* GroupsEnabled.__init__
GroupsEnabled(need_groups_enabled_types) ==
    [cls |-> "GroupsEnabled", need_groups_enabled_types |-> need_groups_enabled_types]

\* the member_types argument: None, or a set of types, which may be empty
NoMemberTypes == [given |-> FALSE, types |-> {}]
GivenMemberTypes(types) == [given |-> TRUE, types |-> types]

\* GroupsEnabled.excludes; `enabled` is
\* current_app.config["USERS_RESOURCES_GROUPS_ENABLED"]
GroupsEnabled_excludes_IgnoresConfig(g, member_types, enabled) ==
    LET types == IF member_types.given /\ member_types.types # {}
                 THEN member_types.types
                 ELSE {"group"}
    IN  IF \E m \in types : m \in g.need_groups_enabled_types
        THEN {any_user}
        ELSE {}

GroupsEnabled_excludes(g, member_types, enabled) ==
    LET types == IF member_types.given /\ member_types.types # {}
                 THEN member_types.types
                 ELSE {"group"}
    IN  IF \E m \in types : m \in g.need_groups_enabled_types /\ ~enabled
        THEN {any_user}
        ELSE {}

\* the arguments of one call
ExcludesArgs(member_types, enabled) == [member_types |-> member_types, enabled |-> enabled]

ApplyGroupsEnabledExcludes ==
    \E need_types \in SUBSET MemberTypes, enabled \in BOOLEAN,
       member_types \in {NoMemberTypes} \cup {GivenMemberTypes(t) : t \in SUBSET MemberTypes} :
        Applied("GroupsEnabled.excludes", GroupsEnabled(need_types), NoIdentity,
                ExcludesArgs(member_types, enabled),
                GroupsEnabled_excludes(GroupsEnabled(need_types), member_types, enabled))

NextExcludes ==
    \/ ApplyGroupsEnabledExcludes

SpecExcludes == InitUsers /\ [][NextExcludes]_vars

----------------------------------------------------------------------------
(* services/users: the operations on the state of an account, as the tests  *)
(* use them, and resources/users/resource.py: the views that call them      *)

\* the ids a caller may pass: the user the tests manage and one of no user
MissingUser == MaxUser + 1
UserCallIds == ManagedUsers \cup {MissingUser}

\* UserAggregate.block, verify, deactivate and activate: the columns written
UserAggregate_block(a) ==
    [a EXCEPT !.active = FALSE, !.blocked_at = TRUE, !.verified_at = FALSE]
UserAggregate_verify(a) ==
    [a EXCEPT !.active = TRUE, !.blocked_at = FALSE, !.verified_at = TRUE]
UserAggregate_deactivate(a) ==
    [a EXCEPT !.active = FALSE, !.blocked_at = FALSE, !.verified_at = FALSE]
UserAggregate_activate(a) ==
    [a EXCEPT !.active = TRUE, !.blocked_at = FALSE, !.verified_at = FALSE,
              !.confirmed_at = TRUE]

\* UserAggregate.get_record: None for an id of no user
UserAggregate_get_record(id_) == IF id_ \in DOMAIN accounts THEN UserRecord(id_) ELSE NoRecord

\* a served operation on an account: the account is written and committed in
\* one unit of work
UserCommit(op, identity, id_, account) ==
    /\ commits < MaxCommits
    /\ accounts' = [accounts EXCEPT ![id_] = account]
    /\ uow' = << RecordCommitOp(id_) >>
    /\ last' = Served(op, identity, id_, "", id_, "True",
                      << S_get, S_perm, S_mutate, S_reg >>)
    /\ commits' = commits + 1
    /\ UNCHANGED <<roles, superuser_roles, moderation_roles, gen>>

\* the shape the four operations share: no user and a refusal of "manage" both
\* raise PermissionDeniedError before anything is written
Manage(op, identity, id_, account) ==
    LET user == UserAggregate_get_record(id_)
    IN  IF user = NoRecord
        THEN Raise(op, identity, id_, "PermissionDeniedError", FALSE, << S_get >>)
        ELSE IF ~users_check_permission(identity, "manage", user)
        THEN Raise(op, identity, id_, "PermissionDeniedError", TRUE, << S_get, S_perm >>)
        ELSE UserCommit(op, identity, id_, account)

\* accounts[id_] where there is such a user
AccountOf(id_) == IF id_ \in DOMAIN accounts THEN accounts[id_] ELSE FixtureAccounts[MaxUser]

UsersService_block(identity, id_) ==
    Manage("block", identity, id_, UserAggregate_block(AccountOf(id_)))
UsersService_restore(identity, id_) ==
    Manage("restore", identity, id_, UserAggregate_activate(AccountOf(id_)))
UsersService_approve(identity, id_) ==
    Manage("approve", identity, id_, UserAggregate_verify(AccountOf(id_)))
UsersService_deactivate(identity, id_) ==
    Manage("deactivate", identity, id_, UserAggregate_deactivate(AccountOf(id_)))
UsersService_activate(identity, id_) ==
    Manage("activate", identity, id_, UserAggregate_activate(AccountOf(id_)))

\* UsersService.read: the user is returned to whom the policy lets read it
UsersService_read(identity, id_) ==
    LET user == UserAggregate_get_record(id_)
    IN  IF user = NoRecord
        THEN Raise("read", identity, id_, "PermissionDeniedError", FALSE, << S_get >>)
        ELSE IF ~users_read(identity, user).read
        THEN Raise("read", identity, id_, "PermissionDeniedError", TRUE, << S_get, S_perm >>)
        ELSE Return([Call("read", identity, id_, "ok", TRUE, {id_})
                        EXCEPT !.result = "item", !.steps = << S_get, S_perm >>])

\* UsersResourceConfig.routes: the routes of the views modelled
users_routes == {"item", "approve", "block", "restore", "deactivate", "activate"}

\* UsersResource.create_url_rules, for those routes
users_create_url_rules ==
    {Rule("GET", "item", "read"),
     Rule("POST", "approve", "approve"),
     Rule("POST", "block", "block"),
     Rule("POST", "restore", "restore"),
     Rule("POST", "deactivate", "deactivate"),
     Rule("POST", "activate", "activate")}

\* the response of a view of the users resource: `return "", 200`, or the
\* answer of the error handler to what the service raised
UsersRespond(view, identity) ==
    LET rule == CHOOSE r \in users_create_url_rules : r.view = view
        raised == Exception(last'.outcome, last'.data)
        handled == ErrorHandlersMixin_error_handlers(raised)
    IN  http' = IF last'.outcome = "ok"
                THEN Exchange(rule.method, rule.route, identity, last'.id, 200, "",
                              NoException)
                ELSE Exchange(rule.method, rule.route, identity, last'.id,
                              handled.code, handled.description, raised)

UsersResource_read ==
    \E identity \in RequestIdentities, id_ \in UserCallIds :
        UsersService_read(identity, id_) /\ UsersRespond("read", identity)
UsersResource_approve_AnswersOk ==
    \E identity \in RequestIdentities, id_ \in UserCallIds :
        /\ UsersService_approve(identity, id_)
        /\ http' = Exchange("POST", "approve", identity, last'.id, 200, "", NoException)
UsersResource_approve ==
    \E identity \in RequestIdentities, id_ \in UserCallIds :
        UsersService_approve(identity, id_) /\ UsersRespond("approve", identity)
UsersResource_block_CallsDeactivate ==
    \E identity \in RequestIdentities, id_ \in UserCallIds :
        /\ Manage("block", identity, id_, UserAggregate_deactivate(AccountOf(id_)))
        /\ UsersRespond("block", identity)
UsersResource_block ==
    \E identity \in RequestIdentities, id_ \in UserCallIds :
        UsersService_block(identity, id_) /\ UsersRespond("block", identity)
UsersResource_restore ==
    \E identity \in RequestIdentities, id_ \in UserCallIds :
        UsersService_restore(identity, id_) /\ UsersRespond("restore", identity)
UsersResource_deactivate ==
    \E identity \in RequestIdentities, id_ \in UserCallIds :
        UsersService_deactivate(identity, id_) /\ UsersRespond("deactivate", identity)
UsersResource_activate ==
    \E identity \in RequestIdentities, id_ \in UserCallIds :
        UsersService_activate(identity, id_) /\ UsersRespond("activate", identity)

InitLifecycle ==
    /\ roles = FixtureRoles({1}, {2}, {})
    /\ superuser_roles = {1}
    /\ moderation_roles = {2}
    /\ uow = << >>
    /\ last = NoCall
    /\ commits = 0
    /\ gen = NoGen
    /\ http = NoHttp
    /\ accounts = FixtureAccounts

NextLifecycle ==
    \/ UsersResource_read
    \/ UsersResource_approve
    \/ UsersResource_block
    \/ UsersResource_restore
    \/ UsersResource_deactivate
    \/ UsersResource_activate

SpecLifecycle == InitLifecycle /\ [][NextLifecycle]_vars

----------------------------------------------------------------------------
(* The claims' vocabulary, stated on the tables and not on the generators *)

GroupFn == "IfGroupActionRoleMatches._should_action_proceed"
UserFn == "IfUserActionRoleMatches._should_action_proceed"

\* a superadmin: a user who belongs to a role holding the superuser action
IsSuperadmin(identity) ==
    /\ identity.kind = "user"
    /\ \E r \in superuser_roles \cap DOMAIN roles : identity.id \in roles[r].users

\* a group holding the superuser action
IsSuperGroup(g) == g \in superuser_roles

\* the precedence table of spec.md section 4
PrecedenceTable(actor_super, target_super) == ~(~actor_super /\ target_super)

----------------------------------------------------------------------------
(* Claims on the generators, checked under SpecGen *)

\* C1: with at least one superuser role, an identity and a target group given,
\* IfGroupActionRoleMatches._should_action_proceed follows the precedence
\* table: it refuses exactly (actor not superadmin, group superadmin).
C1_GroupPrecedenceTable ==
    (/\ gen.fn = GroupFn
     /\ superuser_roles # {}
     /\ gen.identity # NoIdentity
     /\ gen.record # NoRecord)
    => (gen.result.proceed
            <=> PrecedenceTable(IsSuperadmin(gen.identity), IsSuperGroup(gen.record.id)))

\* C1 witness: a moderator acting on the superuser group has been refused.
C1_Witness ==
    /\ gen.fn = GroupFn
    /\ superuser_roles # {}
    /\ gen.identity.kind = "user"
    /\ ~IsSuperadmin(gen.identity)
    /\ gen.record.kind = "group"
    /\ IsSuperGroup(gen.record.id)
    /\ ~gen.result.proceed

\* C2: with no superuser role, both _should_action_proceed let the action
\* proceed for every identity and every target, absent ones included.
C2_NoSuperuserRolesAllowsEveryone ==
    (gen.fn \in {GroupFn, UserFn} /\ superuser_roles = {}) => gen.result.proceed

\* C2 witness: with no superuser role the user variant has let an absent
\* identity proceed.
C2_Witness ==
    /\ gen.fn = UserFn
    /\ superuser_roles = {}
    /\ gen.identity = NoIdentity
    /\ gen.result.proceed

\* C3 as stated: whenever the identity or the target is absent, both
\* _should_action_proceed let the action proceed, whatever the superuser role
\* set contains.
C3_AbsentIsDefaultAllow ==
    (/\ gen.fn \in {GroupFn, UserFn}
     /\ (gen.identity = NoIdentity \/ gen.record = NoRecord))
    => gen.result.proceed

\* C3 amended: with the identity or the target absent,
\* IfGroupActionRoleMatches lets the action proceed unless the identity is
\* absent and the given group holds the superuser role, and
\* IfUserActionRoleMatches lets it proceed iff an identity is given or no
\* superuser role exists.
C3_AbsentAmended ==
    /\ (/\ gen.fn = GroupFn
         /\ (gen.identity = NoIdentity \/ gen.record = NoRecord))
        => (gen.result.proceed
                <=> ~(/\ gen.identity = NoIdentity
                      /\ gen.record # NoRecord
                      /\ IsSuperGroup(gen.record.id)))
    /\ (/\ gen.fn = UserFn
         /\ (gen.identity = NoIdentity \/ gen.record = NoRecord))
        => (gen.result.proceed
                <=> (gen.identity # NoIdentity \/ superuser_roles = {}))

\* C3 witness: an absent identity has been refused the superuser group.
C3_Witness ==
    /\ gen.fn = GroupFn
    /\ gen.identity = NoIdentity
    /\ gen.record.kind = "group"
    /\ IsSuperGroup(gen.record.id)
    /\ ~gen.result.proceed

\* C4: with superuser roles, IfUserActionRoleMatches refuses an actor who is
\* not a superadmin an action whose target user is a superadmin, and lets the
\* other three combinations proceed.
C4_UserPrecedenceTable ==
    (/\ gen.fn = UserFn
     /\ superuser_roles # {}
     /\ gen.identity # NoIdentity
     /\ gen.record # NoRecord)
    => (gen.result.proceed
            <=> PrecedenceTable(IsSuperadmin(gen.identity),
                                IsSuperadmin(UserIdentity(gen.record.id))))

----------------------------------------------------------------------------
(* Claims on the groups service, checked under Spec *)

\* a moderator: a user who belongs to a role holding administration-moderation
IsModerator(identity) ==
    /\ identity.kind = "user"
    /\ \E r \in moderation_roles \cap DOMAIN roles : identity.id \in roles[r].users

\* an authenticated user who is neither moderator nor superadmin
IsOrdinary(identity) ==
    identity.kind = "user" /\ ~IsModerator(identity) /\ ~IsSuperadmin(identity)

Denied == "PermissionDeniedError"

\* the step is a service call (described by last')
IsCall == vars' # vars

C6_MissingGroupIsDenied ==
    [][(/\ IsCall
        /\ last'.op \in {"read", "read_avatar", "update", "add_user", "remove_user",
                         "list_users"}
        /\ last'.id \notin DOMAIN roles)
       => /\ last'.outcome = Denied
          /\ ~last'.checked
          /\ roles' = roles
          /\ uow' = << >>
          /\ commits' = commits]_vars

\* C6 witness: a moderator's update of a group that does not exist was refused
\* without a policy evaluation.
C6_Witness ==
    /\ last.op = "update"
    /\ last.id \notin DOMAIN roles
    /\ IsModerator(last.identity)
    /\ last.outcome = Denied
    /\ ~last.checked

\* C7: create, update, add_user and remove_user check the permission before
\* they touch anything: a call refused with PermissionDeniedError leaves the
\* roles table and the unit of work untouched, so the data that were valid
\* before the refused call are valid after it and a moderator is still
\* permitted to create with them.
C7_RefusedCallChangesNothing ==
    [][(/\ IsCall
        /\ last'.op \in {"create", "update", "add_user", "remove_user"}
        /\ last'.outcome = Denied)
       => /\ roles' = roles
          /\ uow' = << >>
          /\ commits' = commits
          /\ \A d \in CreateData : SchemaErrors(d)' = SchemaErrors(d)
          /\ \A j \in UserIdentities :
                IsModerator(j) => check_permission(j, "create", NoRecord)']_vars

\* C7 witness: a create by an ordinary user has been refused by the policy.
C7_Witness ==
    /\ last.op = "create"
    /\ IsOrdinary(last.identity)
    /\ last.outcome = Denied
    /\ last.checked
    /\ uow = << >>

\* C8: a search by a moderator who is not a superadmin returns every group but
\* those holding the superuser role; AdministratorGroupAction.query_filter
\* contributes no filter for an absent identity or one without the action.
C8_ModeratorSearch ==
    /\ (/\ last.op = "search"
        /\ IsModerator(last.identity)
        /\ ~IsSuperadmin(last.identity))
       => /\ last.outcome = "ok"
          /\ last.hits = DOMAIN roles \ superuser_roles
    /\ \A identity \in AllIdentities :
          (identity = NoIdentity \/ ~(IsModerator(identity) \/ IsSuperadmin(identity)))
          => AdministratorGroupAction_query_filter(GroupManager, identity) = NoQuery

\* C8 witness: a moderator's search returned groups and left out the group
\* holding the superuser role.
C8_Witness ==
    /\ last.op = "search"
    /\ IsModerator(last.identity)
    /\ ~IsSuperadmin(last.identity)
    /\ last.outcome = "ok"
    /\ last.hits # {}
    /\ \E g \in DOMAIN roles : g \in superuser_roles /\ g \notin last.hits

\* C9: a search by an authenticated identity that is neither moderator nor
\* superadmin returns exactly the groups with is_managed false; an anonymous
\* identity is refused the search.
C9_OrdinarySearch ==
    /\ (last.op = "search" /\ IsOrdinary(last.identity))
       => /\ last.outcome = "ok"
          /\ last.hits = {g \in DOMAIN roles : ~roles[g].is_managed}
    /\ (last.op = "search" /\ last.identity = AnonIdentity)
       => last.outcome = Denied

\* C9 witness: an ordinary user's search returned the group that is not
\* managed while managed groups exist.
C9_Witness ==
    /\ last.op = "search"
    /\ IsOrdinary(last.identity)
    /\ last.outcome = "ok"
    /\ last.hits # {}
    /\ \E g \in DOMAIN roles : roles[g].is_managed

\* who may read a group, by identity class
MayRead(identity, g) ==
    CASE identity = SystemIdentity -> TRUE
      [] IsSuperadmin(identity) -> TRUE
      [] IsModerator(identity) -> TRUE
      [] identity.kind = "user" -> ~roles[g].is_managed
      [] OTHER -> FALSE

\* C10: read and read_avatar are allowed by identity class: the system
\* identity, a superadmin and a moderator read managed and unmanaged groups, an
\* ordinary user reads a group iff it is not managed, an anonymous identity
\* reads none; the group holding the superuser role is read by the superadmin
\* and by neither an ordinary nor an anonymous identity.
C10_ReadByIdentityClass ==
    (last.op \in {"read", "read_avatar"} /\ last.id \in DOMAIN roles)
    => /\ last.outcome = (IF MayRead(last.identity, last.id) THEN "ok" ELSE Denied)
       /\ last.id \in superuser_roles
          => /\ IsSuperadmin(last.identity) => last.outcome = "ok"
             /\ (IsOrdinary(last.identity) \/ last.identity = AnonIdentity)
                => last.outcome = Denied

\* C10 witness: an ordinary user has read the avatar of a group that is not
\* managed.
C10_Witness ==
    /\ last.op = "read_avatar"
    /\ IsOrdinary(last.identity)
    /\ last.id \in DOMAIN roles
    /\ ~roles[last.id].is_managed
    /\ last.outcome = "ok"

\* the call of this step was served
Served_(op) == last'.op = op /\ last'.outcome = "ok"

\* C11: group membership round-trips: a served add_user(group, u) returns True
\* and adds exactly u to the group's users (so a group with no members then has
\* the single member u), a served remove_user(group, u) returns True and
\* removes exactly u, no other call changes the users of a group, and
\* list_users reports exactly the current users of the group, one entry each.
C11_MembershipRoundTrip ==
    [][IsCall =>
        /\ Served_("add_user")
            => /\ last'.result = "True"
               /\ roles' = [roles EXCEPT ![last'.id].users = @ \cup {last'.user}]
               /\ roles[last'.id].users = {} => roles'[last'.id].users = {last'.user}
        /\ Served_("remove_user")
            => /\ last'.result = "True"
               /\ roles' = [roles EXCEPT ![last'.id].users = @ \ {last'.user}]
        /\ ~(Served_("add_user") \/ Served_("remove_user"))
            => \A g \in DOMAIN roles \cap DOMAIN roles' : roles'[g].users = roles[g].users
        /\ Served_("list_users")
            => /\ last'.hits = roles[last'.id].users
               /\ {e.id : e \in last'.entries} = last'.hits
               /\ Cardinality(last'.entries) = Cardinality(last'.hits)]_vars

\* C11 witness: list_users has reported a user who was in no group at the
\* start, after the add_user that put the user there.
C11_Witness ==
    /\ last.op = "list_users"
    /\ last.outcome = "ok"
    /\ MaxUser \in last.hits
    /\ commits > 0

\* C12: every entry of a list_users result consists of the member's email,
\* integer id and username.
C12_ListUsersEntryFields ==
    (last.op = "list_users" /\ last.outcome = "ok")
    => \A e \in last.entries :
          /\ DOMAIN e = {"email", "id", "username"}
          /\ e.id \in last.hits
          /\ e.username = UserRow(e.id).username
          /\ e.email = UserRow(e.id).email

----------------------------------------------------------------------------
(* Claims on the groups resource configuration, checked under SpecGen *)

\* C16: the groups resource answers a ForeignKeyIntegrityError with the HTTP
\* error 403 and one fixed description, whatever the exception carries, and
\* answers every other exception as the default error-handler mapping does.
C16_ForeignKeyErrorIs403 ==
    http.error # NoException
    => IF http.error.cls = "ForeignKeyIntegrityError"
       THEN /\ http.status = 403
            /\ http.description = ForeignKeyDescription
       ELSE Handled(http.status, http.description)
                = ErrorHandlersMixin_error_handlers(http.error)

\* C16 witness: a ForeignKeyIntegrityError carrying a message of its own has
\* been answered 403.
C16_Witness ==
    /\ http.error.cls = "ForeignKeyIntegrityError"
    /\ http.error.message = "role is still referenced"
    /\ http.status = 403
    /\ http.description # http.error.message

----------------------------------------------------------------------------
(* Further claims on the groups service, checked under Spec *)

\* C14: create and update round-trip through read: a served create adds one
\* group, under an id no group had, with the submitted name and description,
\* and returns it; a served update writes the new description and nothing
\* else, and returns the group with its id and name unchanged; a served read
\* returns the group as the table holds it; and no call but a served update
\* changes the name or the description of a group, so every read after an
\* update yields what that update wrote.
C14_CreateUpdateRoundTrip ==
    [][IsCall =>
        /\ Served_("create")
            => /\ last'.id \notin DOMAIN roles
               /\ DOMAIN roles' = DOMAIN roles \cup {last'.id}
               /\ roles'[last'.id].name = last'.name
               /\ roles'[last'.id].description = last'.data
               /\ last'.entries = {result_item(last'.id, roles')}
        /\ Served_("update")
            => /\ roles' = [roles EXCEPT ![last'.id].description = last'.data]
               /\ last'.entries =
                    {[result_item(last'.id, roles) EXCEPT !.description = last'.data]}
        /\ Served_("read")
            => last'.entries = {result_item(last'.id, roles)}
        /\ \A g \in DOMAIN roles \cap DOMAIN roles' :
              /\ roles'[g].name = roles[g].name
              /\ (~Served_("update") \/ last'.id # g)
                 => roles'[g].description = roles[g].description]_vars

\* C14 witness: a read has returned a created group with the description a
\* later update gave it.
C14_Witness ==
    /\ last.op = "read"
    /\ last.outcome = "ok"
    /\ last.id \in DOMAIN roles
    /\ roles[last.id].name = "newgroup"
    /\ last.entries = {[result_item(last.id, roles) EXCEPT !.description = "d1"]}

\* no two groups have the same name and every group has one
UniqueNames(rs) ==
    /\ \A g \in DOMAIN rs : rs[g].name # NoName
    /\ \A g, h \in DOMAIN rs : rs[g].name = rs[h].name => g = h

Rank(step) ==
    CASE step = S_get -> 0
      [] step = S_perm -> 1
      [] step = S_load -> 2
      [] step = S_mutate -> 3
      [] step = S_comp -> 4
      [] step = S_reg -> 5

Ordered(steps) ==
    \A i, j \in DOMAIN steps : i < j => Rank(steps[i]) < Rank(steps[j])

Ran(steps) == {steps[i] : i \in DOMAIN steps}

\* C17: every served create, update, add_user and remove_user registers
\* exactly one operation with the unit of work, a RecordCommitOp for the
\* affected group with index_refresh true, as the last statement it runs,
\* after the permission check, the validation, the mutation and the components
\* (those of them the handler has) have run in that order; a call that raises
\* registers nothing.
C17_OneCommitOpAfterTheRest ==
    [][(IsCall /\ last'.op \in {"create", "update", "add_user", "remove_user"})
       => IF last'.outcome = "ok"
          THEN /\ uow' = << RecordCommitOp(last'.id) >>
               /\ uow'[1].index_refresh
               /\ last'.id \in DOMAIN roles'
               /\ Ordered(last'.steps)
               /\ last'.steps[Len(last'.steps)] = S_reg
               /\ {S_perm, S_mutate} \subseteq Ran(last'.steps)
               /\ last'.op \in {"create", "update"}
                  => {S_load, S_comp} \subseteq Ran(last'.steps)
          ELSE /\ uow' = << >>
               /\ S_reg \notin Ran(last'.steps)]_vars

\* C17 witness: a served add_user has registered its one commit operation
\* after the permission check and the mutation.
C17_Witness ==
    /\ last.op = "add_user"
    /\ last.outcome = "ok"
    /\ uow = << RecordCommitOp(last.id) >>
    /\ last.steps = << S_get, S_perm, S_mutate, S_reg >>
    /\ MaxUser \in roles[last.id].users

----------------------------------------------------------------------------
(* Claims on the groups resource, checked under SpecHttp *)

\* the step is the request http' describes
IsRequest(method, route) ==
    vars' # vars /\ http'.method = method /\ http'.route = route

\* C13: a group can be deleted through the public interface: DELETE
\* /groups/<id> by a moderator, on a group that holds no action, answers 204
\* and removes the group; a GET of an id that no group has is answered 403; a
\* DELETE by an identity that is neither moderator nor superadmin is refused
\* and leaves the group in the table.
C13_DeleteThroughHttp ==
    [][/\ (/\ IsRequest("DELETE", "item")
           /\ http'.id \in DOMAIN roles \ (superuser_roles \cup moderation_roles)
           /\ IsModerator(http'.identity))
          => /\ http'.status = 204
             /\ http'.id \notin DOMAIN roles'
       /\ (IsRequest("GET", "item") /\ http'.id \notin DOMAIN roles)
          => http'.status = 403
       /\ (/\ IsRequest("DELETE", "item")
           /\ http'.id \in DOMAIN roles
           /\ ~IsModerator(http'.identity)
           /\ ~IsSuperadmin(http'.identity))
          => /\ http'.status # 204
             /\ roles' = roles]_vars

----------------------------------------------------------------------------
(* Claims on the generators for users, checked under SpecUsers *)

\* the preference is set, and set to this value
Prefers(preferences, field, value) ==
    field \in DOMAIN preferences /\ preferences[field] = value

\* C18: an anonymous identity reads a user, and the user's avatar, only when
\* the user's visibility preference is public, and sees the email only when
\* email_visibility is public too; every user reads their own record, email and
\* avatar whatever the preferences are; IfPublic._condition selects the
\* then-branch iff a record is given and the preference is set to public; and
\* Self.needs is exactly the user need of the record's id.
C18_PublicAndSelf ==
    /\ (gen.fn = "UsersService.read" /\ gen.identity = AnonIdentity)
       => /\ gen.result.read <=> Prefers(gen.record.preferences, "visibility", "public")
          /\ gen.result.avatar <=> gen.result.read
          /\ gen.result.email
                <=> /\ Prefers(gen.record.preferences, "visibility", "public")
                    /\ Prefers(gen.record.preferences, "email_visibility", "public")
    /\ (gen.fn = "UsersService.read" /\ gen.identity = UserIdentity(gen.record.id))
       => gen.result.read /\ gen.result.email /\ gen.result.avatar
    /\ gen.fn = "IfPublic._condition"
       => (gen.result
             <=> /\ gen.record.kind # "none"
                 /\ Prefers(gen.record.preferences, gen.generator.action, "public"))
    /\ gen.fn = "Self.needs"
       => gen.result = IF gen.record.kind = "none" THEN {}
                       ELSE {[method |-> "id", value |-> gen.record.id, name |-> ""]}

\* C18 witness: an anonymous identity has read a public user whose email is
\* restricted, and was not shown the email.
C18_Witness ==
    /\ gen.fn = "UsersService.read"
    /\ gen.identity = AnonIdentity
    /\ Prefers(gen.record.preferences, "visibility", "public")
    /\ Prefers(gen.record.preferences, "email_visibility", "restricted")
    /\ gen.result.read
    /\ ~gen.result.email

\* C19: only public users are shown in a user search: whichever of the
\* then-query and the else-query are present, a document whose field is
\* restricted matches IfPublic.query_filter only if the else-query is present
\* and matches it, and a document whose field is public matches whenever the
\* then-query is absent or matches it; Self.query_filter matches the documents
\* of the identity's own id and contributes nothing for an identity without one.
C19_OnlyPublicUsersInSearch ==
    /\ gen.fn = "IfPublic.query_filter"
       => LET then_query == _make_query(gen.generator.then_, gen.identity)
              else_query == _make_query(gen.generator.else_, gen.identity)
              field == gen.generator.action
          IN  /\ gen.result.q
              /\ \A d \in UserDocs :
                    /\ (Prefers(d.preferences, field, "restricted") /\ d \in gen.result.hits)
                       => (else_query.q /\ d \in else_query.hits)
                    /\ (/\ Prefers(d.preferences, field, "public")
                        /\ (~then_query.q \/ d \in then_query.hits))
                       => d \in gen.result.hits
    /\ gen.fn = "Self.query_filter"
       => gen.result = IF gen.identity.kind = "user"
                       THEN [q |-> TRUE, hits |-> {d \in UserDocs : d.id = gen.identity.id}]
                       ELSE NoQuery

\* C19 witness: for a user, the filter of IfPublic with any-user then and self
\* else has matched the public documents and the user's own restricted ones,
\* and no other restricted document.
C19_Witness ==
    /\ gen.fn = "IfPublic.query_filter"
    /\ gen.generator.then_ = << AnyUser >>
    /\ gen.generator.else_ = << Self >>
    /\ gen.identity.kind = "user"
    /\ \E d \in gen.result.hits :
          Prefers(d.preferences, gen.generator.action, "restricted")
    /\ \E d \in UserDocs \ gen.result.hits :
          Prefers(d.preferences, gen.generator.action, "restricted")

----------------------------------------------------------------------------
(* Claims on the users resource, checked under SpecLifecycle *)

\* the operations on the state of an account
LifecycleOps == {"approve", "block", "restore", "deactivate", "activate"}

\* the step serves the operation `op`, requested through its route
Managed(op) ==
    /\ IsRequest("POST", op)
    /\ http'.status = 200
    /\ last'.op = op
    /\ last'.outcome = "ok"

\* C20: the lifecycle of a user: a moderator's block, restore, approve and
\* deactivate of a user are served; a served block leaves the user inactive
\* with blocked_at set; a served restore of a blocked user leaves it active
\* with blocked_at and verified_at unset and confirmed_at set; a served approve
\* leaves it active with verified_at set; a served deactivate leaves it
\* inactive. The same operations by an ordinary user on their own account
\* raise PermissionDeniedError and change nothing, and the accounts change in
\* no step other than a served lifecycle operation (approve, block, restore,
\* deactivate, activate), which changes the one account it names.
C20_UserLifecycle ==
    [][LET id_ == last'.id
           own == UserIdentity(id_)
       IN  /\ (/\ vars' # vars
               /\ http'.route \in LifecycleOps
               /\ IsModerator(http'.identity)
               /\ http'.id \in DOMAIN accounts)
              => Managed(http'.route)
           /\ Managed("block")
              => ~accounts'[id_].active /\ accounts'[id_].blocked_at
           /\ (Managed("restore") /\ accounts[id_].blocked_at)
              => /\ accounts'[id_].active
                 /\ ~accounts'[id_].blocked_at
                 /\ ~accounts'[id_].verified_at
                 /\ accounts'[id_].confirmed_at
           /\ Managed("approve")
              => accounts'[id_].active /\ accounts'[id_].verified_at
           /\ Managed("deactivate") => ~accounts'[id_].active
           /\ (/\ vars' # vars
               /\ last'.op \in LifecycleOps \ {"activate"}
               /\ last'.identity = own
               /\ IsOrdinary(own))
              => /\ last'.outcome = Denied
                 /\ http'.status = 403
                 /\ accounts' = accounts
           /\ accounts' # accounts
              => /\ \E op \in LifecycleOps : Managed(op)
                 /\ DOMAIN accounts' = DOMAIN accounts
                 /\ \A u \in DOMAIN accounts \ {id_} : accounts'[u] = accounts[u]]_vars

\* C20 witness: a moderator's restore was the second operation served on the
\* accounts: the user restored is active and confirmed, neither blocked nor
\* verified.
C20_Witness ==
    /\ last.op = "restore"
    /\ last.outcome = "ok"
    /\ IsModerator(last.identity)
    /\ http.route = "restore"
    /\ http.status = 200
    /\ commits = 2
    /\ accounts[last.id] = Account(TRUE, TRUE, FALSE, FALSE)

\* C21: block, approve, deactivate and restore requested by a moderator with
\* the id of no user each raise PermissionDeniedError, which is answered 403,
\* before the policy is evaluated; no account is created and none is changed,
\* and nothing is registered for commit.
C21_MissingUserIsDenied ==
    [][(/\ vars' # vars
        /\ last'.op \in {"block", "approve", "deactivate", "restore"}
        /\ IsModerator(last'.identity)
        /\ last'.id \notin DOMAIN accounts)
       => /\ last'.outcome = Denied
          /\ ~last'.checked
          /\ http'.route = last'.op
          /\ http'.status = 403
          /\ http'.error.cls = Denied
          /\ accounts' = accounts
          /\ uow' = << >>
          /\ commits' = commits]_vars

\* C21 witness: a moderator's approve of a user that does not exist was
\* answered 403, after a moderator had changed the account of a user that
\* exists.
C21_Witness ==
    /\ last.op = "approve"
    /\ IsModerator(last.identity)
    /\ last.id = MissingUser
    /\ last.outcome = Denied
    /\ http.status = 403
    /\ commits > 0
    /\ accounts # FixtureAccounts

----------------------------------------------------------------------------
(* Claims on the creation of groups, checked under SpecCreate *)

\* the groups of the fixtures, which no create of the behaviour made
FixtureIds == DOMAIN FixtureRoles({}, {}, {})

\* C22: every group created through GroupsService.create is stored as managed:
\* a served create stores the group with is_managed true and returns it so,
\* whether the submitted data said is_managed False, True or nothing, and every
\* served read of a created group reports is_managed true.
C22_CreatedGroupsAreManaged ==
    [][/\ Served_("create")
          => /\ last'.id \in DOMAIN roles' \ DOMAIN roles
             /\ roles'[last'.id].is_managed
             /\ \A e \in last'.entries : e.is_managed
       /\ (Served_("read") /\ last'.id \notin FixtureIds)
          => /\ last'.entries # {}
             /\ \A e \in last'.entries : e.id = last'.id /\ e.is_managed]_vars

\* C22 witness: a moderator's create from data that said is_managed False has
\* stored the group as managed and returned it so.
C22_Witness ==
    /\ last.op = "create"
    /\ last.outcome = "ok"
    /\ IsModerator(last.identity)
    /\ "is_managed" \in DOMAIN last.submitted
    /\ ~last.submitted.is_managed
    /\ roles[last.id].is_managed
    /\ last.entries = {result_item(last.id, roles)}
    /\ uow = << RecordCommitOp(last.id) >>

----------------------------------------------------------------------------
(* Claims on the branch a conditional generator takes, checked under        *)
(* SpecBranch                                                               *)

GeneratorsFn == "IfActionRoleMatches._generators"

\* what holds of every application of _generators: a decision to proceed
\* carries an index that is not None and selects the one then-generator at
\* that index, a refusal selects the whole else_ list
SelectsOneOrElse ==
    IF gen.result.decision.proceed
    THEN /\ gen.result.decision.index # NoneIndex
         /\ Len(gen.result.selected) = 1
         /\ gen.result.selected[1] \in {gen.generator.then_[1], gen.generator.then_[2]}
    ELSE gen.result.selected = gen.generator.else_

\* C23 as stated: _generators selects exactly one then-generator when the
\* action proceeds, then_[0] iff the actor is a superadmin and then_[1]
\* otherwise, and the whole else_ list when the action is refused; the index
\* it reads is never None.
C23_ThenZeroIffActorSuperadmin ==
    gen.fn = GeneratorsFn
    => /\ SelectsOneOrElse
       /\ gen.result.decision.proceed
          => gen.result.selected
               = << gen.generator.then_[IF IsSuperadmin(gen.identity) THEN 1 ELSE 2] >>

\* C23 amended: exactly one then-generator is selected when the action
\* proceeds and the whole else_ list when it is refused, and the index read is
\* never None; IfUserActionRoleMatches selects then_[0] iff the actor is a
\* superadmin, IfGroupActionRoleMatches selects then_[0] iff the actor is a
\* superadmin and the target group is absent or holds the superuser action
\* itself: a superadmin acting on any other group is given then_[1].
C23_ThenZeroAmended ==
    gen.fn = GeneratorsFn
    => /\ SelectsOneOrElse
       /\ gen.result.decision.proceed
          => LET first ==
                    /\ IsSuperadmin(gen.identity)
                    /\ \/ gen.generator.cls = "IfUserActionRoleMatches"
                       \/ gen.record = NoRecord
                       \/ IsSuperGroup(gen.record.id)
             IN  gen.result.selected
                    = << gen.generator.then_[IF first THEN 1 ELSE 2] >>

\* C23 witness: for a superadmin acting on a group that does not hold the
\* superuser action, _generators of IfGroupActionRoleMatches has selected
\* then_[1] alone.
C23_Witness ==
    /\ gen.fn = GeneratorsFn
    /\ gen.generator.cls = "IfGroupActionRoleMatches"
    /\ IsSuperadmin(gen.identity)
    /\ gen.record # NoRecord
    /\ ~IsSuperGroup(gen.record.id)
    /\ gen.result.decision = Decision(TRUE, 1)
    /\ gen.result.selected = << GroupManager >>

UserQueryFn == "IfUserActionRoleMatches.query_filter"

\* C24: IfUserActionRoleMatches chooses the same branch for searches as for
\* single-record decisions: for every identity (absent, ordinary, moderator,
\* superadmin), every superuser role set (the empty one included) and every
\* target, query_filter builds its query from the generators that _generators
\* selects for that identity.
C24_SearchTakesTheBranchOfDecisions ==
    gen.fn = UserQueryFn
    => \A record \in UserTargets :
          /\ gen.result.from
                = IfActionRoleMatches_generators(gen.generator, gen.identity, record)
          /\ gen.result.query = _make_query(gen.result.from, gen.identity)

AdministratorUserQueryFn == "AdministratorUserAction.query_filter"

\* the users who belong to a role holding the superuser action
SuperadminUsers == {u \in Users : IsSuperadmin(UserIdentity(u))}

\* C25: the filter AdministratorUserAction contributes to a search over users:
\* for an identity that holds the administration-moderation action (a
\* moderator, or a superadmin, who holds every action) it is match_all minus
\* the users who belong to a role holding the superuser action; for an absent
\* identity and for one without the action it is no filter at all.
C25_ModeratorSearchesAllButSuperadmins ==
    gen.fn = AdministratorUserQueryFn
    => IF gen.identity # NoIdentity
          /\ (IsModerator(gen.identity) \/ IsSuperadmin(gen.identity))
       THEN /\ gen.result.q
            /\ gen.result.hits = {d \in UserDocs : d.id \notin SuperadminUsers}
       ELSE gen.result = NoQuery

\* C25 witness: the filter of a moderator who is no superadmin matches users and
\* leaves out a user there is, the member of the superuser role.
C25_Witness ==
    /\ gen.fn = AdministratorUserQueryFn
    /\ IsModerator(gen.identity)
    /\ ~IsSuperadmin(gen.identity)
    /\ SuperadminUsers # {}
    /\ gen.result.hits # {}
    /\ \A d \in UserDocs : d \in gen.result.hits <=> d.id \notin SuperadminUsers

\* C26: IfSuperUser takes the then-branch exactly for superadmins, in both of
\* its uses: _condition is true, and query_filter returns the query of the
\* then-branch, iff an identity is given and belongs to a role holding the
\* superuser action; for every other identity (the absent one included)
\* _condition is false and query_filter returns the query of the else-branch.
\* With the then-branch of the groups read policy a superadmin's filter matches
\* every group.
C26_SuperUserBranch ==
    /\ gen.fn = "IfSuperUser._condition"
       => (gen.result <=> (gen.identity # NoIdentity /\ IsSuperadmin(gen.identity)))
    /\ gen.fn = "IfSuperUser.query_filter"
       => /\ gen.result
               = _make_query(IF gen.identity # NoIdentity /\ IsSuperadmin(gen.identity)
                             THEN gen.generator.then_
                             ELSE gen.generator.else_,
                             gen.identity)
          /\ (IsSuperadmin(gen.identity) /\ gen.generator.then_ = << SuperUser >>)
             => gen.result = Query(DOMAIN roles)

\* C26 witness: for a superadmin the filter of IfSuperUser(SuperUser,
\* GroupManager) matches every group, the one holding the superuser action
\* included, which the else-branch would leave out.
C26_Witness ==
    /\ gen.fn = "IfSuperUser.query_filter"
    /\ IsSuperadmin(gen.identity)
    /\ gen.generator = IfSuperUser(<< SuperUser >>, << GroupManager >>)
    /\ gen.result.hits = DOMAIN roles
    /\ _make_query(gen.generator.else_, gen.identity).hits # DOMAIN roles

----------------------------------------------------------------------------
(* Claims on GroupsEnabled, checked under SpecExcludes *)

ExcludesFn == "GroupsEnabled.excludes"

\* C27 as stated: excludes returns the any-user need iff groups are disabled in
\* the configuration and at least one of the given member types, {'group'}
\* when none is given, is one of the types declared as needing groups enabled;
\* in every other case it returns no need.
C27_ExcludesIffDisabledAndGivenTypeNeedsGroups ==
    gen.fn = ExcludesFn
    => LET given == IF gen.record.member_types.given
                    THEN gen.record.member_types.types
                    ELSE {"group"}
       IN  /\ gen.result \in {{any_user}, {}}
           /\ gen.result = {any_user}
              <=> /\ ~gen.record.enabled
                  /\ given \cap gen.generator.need_groups_enabled_types # {}

\* C27 amended: as stated, with an empty collection of member types counted as
\* none given: the types looked at are the given ones when at least one is
\* given, and {'group'} when the argument is None or empty.
C27_ExcludesAmended ==
    gen.fn = ExcludesFn
    => LET looked_at == IF gen.record.member_types.given
                           /\ gen.record.member_types.types # {}
                        THEN gen.record.member_types.types
                        ELSE {"group"}
       IN  /\ gen.result \in {{any_user}, {}}
           /\ gen.result = {any_user}
              <=> /\ ~gen.record.enabled
                  /\ looked_at \cap gen.generator.need_groups_enabled_types # {}

\* C27 witness: with groups disabled and 'group' declared as needing them,
\* excludes given an empty set of member types has returned the any-user need.
C27_Witness ==
    /\ gen.fn = ExcludesFn
    /\ ~gen.record.enabled
    /\ gen.record.member_types = GivenMemberTypes({})
    /\ "group" \in gen.generator.need_groups_enabled_types
    /\ gen.result = {any_user}

----------------------------------------------------------------------------
(* Further claims on the generators for users, checked under SpecUsers *)

\* C28: IfPublic treats a record the same way in single-record decisions and in
\* searches: when both branches contribute a query, every document, one whose
\* preference is absent or is neither 'public' nor 'restricted' included,
\* matches query_filter exactly when it matches the query of the branch that
\* _condition selects for it (then for public, else for everything else).
C28_ConditionAndFilterAgree ==
    gen.fn = "IfPublic.query_filter"
    => LET then_query == _make_query(gen.generator.then_, gen.identity)
           else_query == _make_query(gen.generator.else_, gen.identity)
       IN  (then_query.q /\ else_query.q)
           => \A d \in UserDocs :
                 LET selected ==
                        IF IfPublic_condition(gen.generator,
                                              UserAggregate(d.id, d.preferences))
                        THEN then_query
                        ELSE else_query
                 IN  d \in gen.result.hits <=> d \in selected.hits

----------------------------------------------------------------------------
(* Claims on creating from data that failed validation, checked under      *)
(* SpecCreate                                                               *)

\* the create that the step made got as far as schema.load, which reported
\* errors on the submitted data
LoadReportedErrors ==
    /\ last'.op = "create"
    /\ \E i \in DOMAIN last'.steps : last'.steps[i] = S_load
    /\ SchemaErrors(last'.submitted) # {}

\* nothing written: no group created or changed, no commit operation
\* registered, nothing committed
NothingPersisted ==
    /\ roles' = roles
    /\ uow' = << >>
    /\ commits' = commits

\* C29: GroupsService.create never persists a group built from data that failed
\* validation: whenever schema.load reports errors, with raise_errors true and
\* with raise_errors false alike, no group is created and no commit operation
\* is registered.
C29_InvalidDataPersistNothing ==
    [][LoadReportedErrors => NothingPersisted]_vars

\* C29 as amended: with raise_errors true a create whose data schema.load found
\* invalid raises ValidationError and persists nothing; with raise_errors false
\* it persists nothing only when the valid part of the data has no name, and
\* otherwise creates the group from the valid part of the data alone (no field
\* found invalid is stored) and registers one commit operation for it.
C29_InvalidDataAmended ==
    [][LoadReportedErrors
       => IF last'.raise_errors \/ ValidData(last'.submitted).name = NoName
          THEN last'.outcome = "ValidationError" /\ NothingPersisted
          ELSE /\ last'.outcome = "ok"
               /\ last'.id \notin DOMAIN roles
               /\ roles' = roles @@ (last'.id :> NewRole(ValidData(last'.submitted)))
               /\ roles'[last'.id].description # InvalidDescription
               /\ uow' = << RecordCommitOp(last'.id) >>]_vars

\* C29 witness: a create with raise_errors false from data whose description the
\* schema rejected has been served: the group is stored under the submitted
\* name without the description, and its commit operation is registered.
C29_Witness ==
    /\ last.op = "create"
    /\ last.outcome = "ok"
    /\ ~last.raise_errors
    /\ last.submitted.description = InvalidDescription
    /\ last.id \in DOMAIN roles
    /\ roles[last.id].name = last.submitted.name
    /\ roles[last.id].description = NoDescription
    /\ uow = << RecordCommitOp(last.id) >>

====
